---- MODULE Spec2Model ----
(***************************************************************************)
(* smartreserver-django: the per-shop reservation store (DatabaseManager), *)
(* the session store (EnhancedSessionManager) and the dialogue engine      *)
(* (UniversalShopAgent, ReservationHandler, CancellationHandler).          *)
(*                                                                         *)
(* StoreSpec : the DatabaseManager methods called directly, by any caller. *)
(* Spec      : request threads running handle_shop_request turns.          *)
(* RaceSpec  : capacity+1 sessions confirming the same slot concurrently.  *)
(* TenantSpec: the DatabaseManager calls for one shop beside another's rows.*)
(* DraftSpec : the turns of a single session.                              *)
(* SerialSpec: two request threads with messages for the same session.     *)
(* SessionSpec: the EnhancedSessionManager methods called directly.        *)
(* BookingSpec: the booking turns of one session, with or without a phone.*)
(* CancelSpec : cancellation turns against a table of two reservations.    *)
(* OngoingSpec: one session drafting, confirming and cancelling.           *)
(* CacheSpec : appends, clears and resets of one conversation cache.       *)
(* ContactSpec: one session key whose contact hints change per message.    *)
(* LlmSpec   : one session's turns with the completion call failing.       *)
(* SlotsSpec : generate_alternative_slots applied to each input.           *)
(* PolicySpec: comprehensive_reservation_validation applied to each draft. *)
(* ClockSpec : the time extraction of _extract_date_time on each clock text.*)
(* CrossSpec : one session key presented with one shop, then with another. *)
(* SweepSpec : get_session with its expiry sweep while the clock advances. *)
(* ValidateSpec: validate_date_time applied to each input.                 *)
(* ExtractSpec: _extract_party_size applied to each message.               *)
(***************************************************************************)
EXTENDS Integers, Sequences, FiniteSets, TLC

\* ---------------------------------------------------------------- bounds
MaxRows == 2      \* rows per shop database that the direct calls insert
MaxIds  == 2      \* reservation ids that can be generated
MaxDate == 1      \* calendar dates explored
MaxTime == 2      \* wall-clock times explored
MaxCache == 2     \* newest entries of a conversation cache that are kept
MaxAhead == 4     \* furthest requested moment, in hours after the current time
MaxLen == 3       \* words of a message given to the extractor
MaxClock == 3     \* ticks of the clock the session sweep is followed for
MaxHour == 5      \* last hour of the day the alternative slots are scanned over
MaxSent == 6      \* messages that arrive at a conversation cache

\* ------------------------------------------------------------ value sets
Shops  == {"A", "B"}
Phones == {"p1", "p2"}
Emails == {"e1"}
None   == "None"                 \* python None (NULL in a column)
Empty  == ""                     \* the empty string
Dates  == 1..MaxDate
Times  == 1..MaxTime
NoDT   == 0                      \* a missing date, time or party size
Ids    == 1..MaxIds
NoId   == 0                      \* no reservation id

\* shop_details['reservation_policy']['max_reservations_per_hour']
max_reservations_per_hour == [s \in Shops |-> IF s = "A" THEN 1 ELSE 2]

\* shop_details['operating_hours'] of the requested weekday, "open - close"
operating_hours == [s \in Shops |-> [open |-> 1, close |-> 1]]

VARIABLES
    rows,      \* rows[shop]: the reservations table of the shop, in rowid order
    last,      \* the manager call of the last step, with its result
    sess,      \* sess[sid]: the cached session (EnhancedSessionManager.sessions)
    db,        \* db[sid]: the durable row of the session (SessionMetadata)
    cache,     \* cache[sid]: ConversationManager.conversation_cache[sid]
    pc,        \* pc[t]: where the request thread t is, and for which session
    lock,      \* owner of UniversalShopAgent._session_lock
    reply      \* reply[sid]: what the last turn of the session returned

vars == <<rows, last, sess, db, cache, pc, lock, reply>>

\* ------------------------------------------------------ DatabaseManager
\* python truthiness of a date/time, of a string and of a reservation id
HasDT(v)  == v # NoDT
HasStr(v) == v # None /\ v # Empty
HasId(v)  == v # NoId

Idx(rs) == 1..Len(rs)

\* one Reservation database file for every shop
get_reservation_db_pathShared(shop) == "B"

\* DATABASE/{shop_id}/Reservation{number}.db: the table of rows the calls for
\* a shop open
get_reservation_db_path(shop) == shop

\* SELECT COUNT(*) ... WHERE reservation_date = ? AND reservation_time = ?
\*   AND status = 'confirmed'
CountConfirmed(rs, date, time) ==
    Cardinality({i \in Idx(rs) : /\ rs[i].date = date
                                 /\ rs[i].time = time
                                 /\ rs[i].status = "confirmed"})

\* the COUNT without AND status = 'confirmed'
check_availabilityAnyStatus(rs, cap, date, time) ==
    IF ~HasDT(date) \/ ~HasDT(time) THEN FALSE
    ELSE Cardinality({i \in Idx(rs) : rs[i].date = date /\ rs[i].time = time}) < cap

check_availability(rs, cap, date, time) ==
    IF ~HasDT(date) \/ ~HasDT(time) THEN FALSE
    ELSE CountConfirmed(rs, date, time) < cap

\* the INSERT raises IntegrityError on a duplicate primary key and on a NULL
\* in a NOT NULL column (phone_number, reservation_date, reservation_time)
InsertFails(rs, data, id) ==
    \/ \E i \in Idx(rs) : rs[i].id = id
    \/ data.phone = None
    \/ data.date = NoDT
    \/ data.time = NoDT

\* the INSERT of save_reservation, with party_size left at its default
NewRowPartyOfOne(data, id) ==
    [id |-> id, phone |-> data.phone, email |-> data.email,
     date |-> data.date, time |-> data.time, party |-> 1,
     status |-> "confirmed"]

\* the INSERT of save_reservation: int(reservation_data.get('party_size', 1)),
\* status 'confirmed'
NewRow(data, id) ==
    [id |-> id, phone |-> data.phone, email |-> data.email,
     date |-> data.date, time |-> data.time,
     party |-> IF data.party = NoDT THEN 1 ELSE data.party,
     status |-> "confirmed"]

save_reservation(rs, data, id) ==
    IF InsertFails(rs, data, id)
    THEN [rows |-> rs, success |-> FALSE, id |-> NoId]
    ELSE [rows |-> Append(rs, NewRow(data, id)), success |-> TRUE, id |-> id]

\* UPDATE ... WHERE phone_number = (the phone of the row) instead of the key
SetCancelledSamePhone(rs, id) ==
    [i \in Idx(rs) |->
        IF \E j \in Idx(rs) : rs[j].id = id /\ rs[j].phone = rs[i].phone
        THEN [rs[i] EXCEPT !.status = "cancelled"] ELSE rs[i]]

SetCancelled(rs, id) ==
    [i \in Idx(rs) |-> IF rs[i].id = id THEN [rs[i] EXCEPT !.status = "cancelled"]
                       ELSE rs[i]]

ByIdAnyStatus(rs, id) == {i \in Idx(rs) : rs[i].id = id}

\* SELECT * ... WHERE reservation_id = ? AND status = 'confirmed'
ById(rs, id) == {i \in Idx(rs) : rs[i].id = id /\ rs[i].status = "confirmed"}

\* a cancellation that deletes the row (DELETE FROM reservations)
cancel_reservationDelete(rs, id) ==
    IF ById(rs, id) = {}
    THEN [rows |-> rs, success |-> FALSE, id |-> NoId]
    ELSE [rows |-> SelectSeq(rs, LAMBDA r : r.id # id), success |-> TRUE, id |-> id]

cancel_reservation(rs, id) ==
    IF ById(rs, id) = {}
    THEN [rows |-> rs, success |-> FALSE, id |-> NoId]
    ELSE [rows |-> SetCancelled(rs, id), success |-> TRUE, id |-> id]

\* ORDER BY reservation_date DESC, reservation_time DESC LIMIT 1: the rows of
\* cand that no other row of cand follows in that order (ties are not ordered)
Later(r1, r2) == \/ r1.date > r2.date
                 \/ r1.date = r2.date /\ r1.time > r2.time

LatestSlot(rs, cand) == {i \in cand : \A j \in cand : ~Later(rs[j], rs[i])}

ByPhoneAnyStatus(rs, phone) ==
    LatestSlot(rs, {i \in Idx(rs) : rs[i].phone = phone})

ByPhone(rs, phone) ==
    LatestSlot(rs, {i \in Idx(rs) : rs[i].phone = phone /\ rs[i].status = "confirmed"})

ByEmail(rs, email) ==
    LatestSlot(rs, {i \in Idx(rs) : rs[i].email = email /\ rs[i].status = "confirmed"})

\* the rows the SELECT of cancel_reservation_enhanced may fetch
EnhancedSelectPhoneFirst(rs, id, phone, email) ==
    IF HasStr(phone) THEN ByPhone(rs, phone)
    ELSE IF HasId(id) THEN ById(rs, id)
    ELSE IF HasStr(email) THEN ByEmail(rs, email)
    ELSE {}

EnhancedSelect(rs, id, phone, email) ==
    IF HasId(id) THEN ById(rs, id)
    ELSE IF HasStr(phone) THEN ByPhone(rs, phone)
    ELSE IF HasStr(email) THEN ByEmail(rs, email)
    ELSE {}

\* pick: the row fetchone() returned, or 0 when the SELECT is empty
cancel_reservation_enhanced(rs, pick) ==
    IF pick = 0
    THEN [rows |-> rs, success |-> FALSE, id |-> NoId]
    ELSE [rows |-> SetCancelled(rs, rs[pick].id), success |-> TRUE, id |-> rs[pick].id]

Picks(sel) == IF sel = {} THEN {0} ELSE sel

\* RES{int(time.time())}{random.randint(1000, 9999)}: an id no row carries
FreshIds(rs) == {id \in Ids : \A i \in Idx(rs) : rs[i].id # id}

\* ------------------------------------------------- EnhancedSessionManager
Sessions == {"s1", "s2", "s3", "s4", "s5"}

\* the user_phone / user_email hints the client of a session sends; a hint
\* left out or blank reaches the agent as None
user_phone == [sid \in Sessions |-> IF sid = "s2" THEN "p2"
                                    ELSE IF sid \in {"s4", "s5"} THEN None ELSE "p1"]
user_email == [sid \in Sessions |-> IF sid \in {"s1", "s4"} THEN "e1"
                                    ELSE IF sid = "s5" THEN None ELSE Empty]

Data(date, time, party) == [date |-> date, time |-> time, party |-> party]
NoData == Data(NoDT, NoDT, NoDT)

Pending(set, data, phone, email) ==
    [set |-> set, date |-> data.date, time |-> data.time, party |-> data.party,
     phone |-> phone, email |-> email]
NoPending == Pending(FALSE, NoData, Empty, Empty)

\* session_id not in self.sessions
NoSession ==
    [shop_id |-> None, reservation_state |-> None, reservation_data |-> NoData,
     pending_reservation |-> NoPending, user_phone |-> None, user_email |-> None]

\* SessionMetadata.DoesNotExist
NoRow == NoSession

\* get_session, cache miss and no durable row: a new session
NewSession(sid, shop) ==
    [shop_id |-> shop, reservation_state |-> None, reservation_data |-> NoData,
     pending_reservation |-> NoPending,
     user_phone |-> user_phone[sid], user_email |-> user_email[sid]]

\* SessionMetadata.objects.create(session_id, shop_id, user_agent, ip_address)
CreatedRow(shop) == [NoRow EXCEPT !.shop_id = shop]

\* user_phone or db_session.user_phone; if user_phone: session['user_phone'] = ...
Hinted(sid, s) ==
    [s EXCEPT !.user_phone = IF HasStr(user_phone[sid]) THEN user_phone[sid] ELSE @,
              !.user_email = IF HasStr(user_email[sid]) THEN user_email[sid] ELSE @]

\* the durable faults of one call: none, objects.get raises an error that is
\* not DoesNotExist, objects.create raises; and, for a turn, load_shop_context
\* raises
SessionFaults == {"none", "load", "create"}

\* get_session(session_id, shop_id, ...): s is the cached session, row the
\* durable row; the create runs in the handler of DoesNotExist, so an error
\* it raises leaves get_session
get_session(sid, shop, s, row, fault) ==
    IF s # NoSession
    THEN [session |-> Hinted(sid, s), row |-> row, raised |-> FALSE]
    ELSE IF fault = "load"
    THEN [session |-> NewSession(sid, shop), row |-> row, raised |-> FALSE]
    ELSE IF row # NoRow
    THEN [session |-> Hinted(sid, row), row |-> row, raised |-> FALSE]
    ELSE IF fault = "create"
    THEN [session |-> NoSession, row |-> row, raised |-> TRUE]
    ELSE [session |-> NewSession(sid, shop), row |-> CreatedRow(shop),
          raised |-> FALSE]

\* the extracted dictionary taking the place of the accumulated one
UpdateReplacing(data, ext) == ext

\* dict.update: the keys of ext overwrite, the other keys stay
Update(data, ext) ==
    Data(IF ext.date # NoDT THEN ext.date ELSE data.date,
         IF ext.time # NoDT THEN ext.time ELSE data.time,
         IF ext.party # NoDT THEN ext.party ELSE data.party)

\* the mutators work on p = [c |-> the cached session, d |-> its durable row];
\* the write to the row is skipped when the row does not exist
Pair(c, d) == [c |-> c, d |-> d]

Written(d, new) == IF d = NoRow THEN NoRow ELSE new

\* a set_reservation_state whose data also goes into the pending reservation
set_reservation_stateIntoPending(p, state, data) ==
    LET c == [p.c EXCEPT !.reservation_state = state,
                         !.reservation_data = IF data # NoData THEN Update(@, data)
                                              ELSE @,
                         !.pending_reservation =
                             IF @.set /\ data # NoData
                             THEN Pending(TRUE, Update(p.c.reservation_data, data),
                                          @.phone, @.email)
                             ELSE @]
    IN  IF p.c = NoSession THEN p
        ELSE Pair(c, Written(p.d, [p.d EXCEPT
                                     !.reservation_state = state,
                                     !.reservation_data = c.reservation_data]))

set_reservation_state(p, state, data) ==
    LET c == [p.c EXCEPT !.reservation_state = state,
                         !.reservation_data = IF data # NoData THEN Update(@, data)
                                              ELSE @]
    IN  IF p.c = NoSession THEN p
        ELSE Pair(c, Written(p.d, [p.d EXCEPT
                                     !.reservation_state = state,
                                     !.reservation_data = c.reservation_data]))

\* a clear that resets the state and the pending reservation only
clear_reservation_stateKeepData(p) ==
    IF p.c = NoSession THEN p
    ELSE Pair([p.c EXCEPT !.reservation_state = None,
                          !.pending_reservation = NoPending],
              Written(p.d, [p.d EXCEPT !.reservation_state = None,
                                       !.pending_reservation = NoPending]))

clear_reservation_state(p) ==
    IF p.c = NoSession THEN p
    ELSE Pair([p.c EXCEPT !.reservation_state = None,
                          !.reservation_data = NoData,
                          !.pending_reservation = NoPending],
              Written(p.d, [p.d EXCEPT !.reservation_state = None,
                                       !.reservation_data = NoData,
                                       !.pending_reservation = NoPending]))

\* a set_pending_reservation that writes the row first and updates the cache
\* only when the row is there
set_pending_reservationWhenWritten(p, pending) ==
    IF p.c = NoSession \/ p.d = NoRow THEN p
    ELSE Pair([p.c EXCEPT !.pending_reservation = pending],
              Written(p.d, [p.d EXCEPT !.pending_reservation = pending]))

set_pending_reservation(p, pending) ==
    IF p.c = NoSession THEN p
    ELSE Pair([p.c EXCEPT !.pending_reservation = pending],
              Written(p.d, [p.d EXCEPT !.pending_reservation = pending]))

\* update_conversation: the contact fields of the session go to the row
update_conversation(p) ==
    IF p.c = NoSession THEN p
    ELSE Pair(p.c, Written(p.d, [p.d EXCEPT !.user_phone = p.c.user_phone,
                                            !.user_email = p.c.user_email]))

\* _cleanup_expired_sessions: del self.sessions[session_id]
expire(s) == NoSession

\* --------------------------------------------------- ConversationManager
\* the conversation cache of a session, as the roles of its newest entries;
\* the append drops the oldest entry beyond the kept length
\* an append that cuts the list at its front: the newest entry goes
add_to_conversation_cacheKeepOldest(c, role) ==
    LET a == Append(c, role)
    IN  IF Len(a) > MaxCache THEN SubSeq(a, 1, MaxCache) ELSE a

add_to_conversation_cache(c, role) ==
    LET a == Append(c, role)
    IN  IF Len(a) > MaxCache THEN Tail(a) ELSE a

clear_conversation_cache(c) == IF Len(c) > 1 THEN <<c[Len(c)]>> ELSE <<>>

reset_conversation_context(c) ==
    add_to_conversation_cache(clear_conversation_cache(c), "assistant")

\* ------------------------------------------------------ DateTimeHandler
\* a check that reads every window as one of a single day
_check_within_shop_hoursSameDay(time, hours) ==
    hours.open <= time /\ time <= hours.close

_check_within_shop_hours(time, hours) ==
    IF hours.close < hours.open
    THEN time >= hours.open \/ time <= hours.close
    ELSE hours.open <= time /\ time <= hours.close

\* the inputs of validate_date_time: whether dateutil parses the two strings,
\* the requested moment in hours after the current time (negative: before
\* it), its wall-clock time, the two limits of the booking window, and what
\* shop_hours holds for the weekday of the requested moment
Ahead == (0 - 1)..MaxAhead
Clock == 0..(MaxTime + 1)
MinHours == 0..2
MaxDays == 2..3

\* shop_hours None or {} (NoHours); the weekday is not a key ("missing"); its
\* value is "" ("empty") or "closed"; its value is not two times around one
\* '-' ("unparsed"); or it is an open-close window
NoHours == [kind |-> "none", open |-> 0, close |-> 0]
DayHours(kind) == [kind |-> kind, open |-> 0, close |-> 0]
Window(open, close) == [kind |-> "window", open |-> open, close |-> close]
ShopHours ==
    {NoHours} \cup {DayHours(k) : k \in {"missing", "empty", "closed", "unparsed"}}
              \cup {Window(o, c) : o \in Clock, c \in Clock}

Verdict(ok, reason) == [ok |-> ok, reason |-> reason]

validate_date_timeHoursFirst(parses, ahead, tod, min_hours, max_days, hours) ==
    IF ~parses THEN Verdict(FALSE, "invalid_format")
    ELSE IF hours # NoHours /\ hours.kind \in {"missing", "empty", "closed"}
    THEN Verdict(FALSE, "closed")
    ELSE IF hours.kind = "window" /\ ~_check_within_shop_hours(tod, hours)
    THEN Verdict(FALSE, "outside_hours")
    ELSE IF ahead < 0 THEN Verdict(FALSE, "past")
    ELSE IF ahead < min_hours THEN Verdict(FALSE, "min_advance")
    ELSE IF ahead > max_days THEN Verdict(FALSE, "max_advance")
    ELSE Verdict(TRUE, "valid")

\* the rules in the order of the code; without shop_hours the two rules about
\* hours are skipped, and an hours string that cannot be split and parsed
\* ("unparsed") does not block
validate_date_time(parses, ahead, tod, min_hours, max_days, hours) ==
    IF ~parses THEN Verdict(FALSE, "invalid_format")
    ELSE IF ahead < 0 THEN Verdict(FALSE, "past")
    ELSE IF ahead < min_hours THEN Verdict(FALSE, "min_advance")
    ELSE IF ahead > max_days THEN Verdict(FALSE, "max_advance")
    ELSE IF hours = NoHours THEN Verdict(TRUE, "valid")
    ELSE IF hours.kind = "missing" THEN Verdict(FALSE, "closed")
    ELSE IF hours.kind \in {"empty", "closed"} THEN Verdict(FALSE, "closed")
    ELSE IF hours.kind = "window" /\ ~_check_within_shop_hours(tod, hours)
    THEN Verdict(FALSE, "outside_hours")
    ELSE Verdict(TRUE, "valid")

\* datetime.now() at the confirming turn, as a date and an hour of that date,
\* and the hours from it to a requested date and hour (negative: before it)
current_dt == [date |-> 1, time |-> 2]
hours_until(date, time) == (date - current_dt.date) * MaxTime + (time - current_dt.time)

\* -------------------------------------------------------- DataExtractor
\* a message is a sequence of words; the vocabulary holds words of each list
\* of _extract_party_size, the words its lookaheads test, a number inside
\* 1..max_party_size, one above it, and a word no rule knows
Tokens == {"alone", "one", "more", "for", "me", "and", "4", "9",
           "brother", "family", "us", "table"}
Texts == UNION {[1..n -> Tokens] : n \in 0..MaxLen}

max_party_size == 5
NoPartySize == 0

Follows(msg, i, words) == i < Len(msg) /\ msg[i + 1] \in words

\* \balone\b, \bone\b(?!\s+more|...), \bfor me\b(?!\s+and)
strict_solo_patterns(msg) ==
    \E i \in 1..Len(msg) :
        \/ msg[i] = "alone"
        \/ msg[i] = "one" /\ ~Follows(msg, i, {"more"})
        \/ msg[i] = "for" /\ Follows(msg, i, {"me"}) /\ ~Follows(msg, i + 1, {"and"})

Digits == {"4", "9"}
NumberOf(word) == IF word = "4" THEN 4 ELSE 9
party_context_words == {"for"}

\* the number stands right before or right after a party-context word
\* somewhere in the message
NextToContext(msg, word) ==
    \E i \in 1..Len(msg) :
        \/ msg[i] = word /\ Follows(msg, i, party_context_words)
        \/ msg[i] \in party_context_words /\ Follows(msg, i, {word})

\* the numbers in the order of the message; the first one next to a context
\* word and inside 1..max_party_size decides
ExplicitNumbers(msg) ==
    {i \in 1..Len(msg) : /\ msg[i] \in Digits
                         /\ NextToContext(msg, msg[i])
                         /\ NumberOf(msg[i]) >= 1
                         /\ NumberOf(msg[i]) <= max_party_size}

explicit_number(msg) ==
    NumberOf(msg[CHOOSE i \in ExplicitNumbers(msg) : \A j \in ExplicitNumbers(msg) : i <= j])

\* the table in its order, with the base size of each keyword
relationship_indicators ==
    << [word |-> "brother", base |-> 2], [word |-> "family", base |-> 3] >>

Mentions(msg, word) == Cardinality({i \in 1..Len(msg) : msg[i] = word})

Relationships(msg) ==
    {k \in 1..Len(relationship_indicators) :
        Mentions(msg, relationship_indicators[k].word) > 0}

relationship(msg) ==
    LET k == CHOOSE a \in Relationships(msg) : \A b \in Relationships(msg) : a <= b
        count == Mentions(msg, relationship_indicators[k].word)
    IN  relationship_indicators[k].base + (IF count > 1 THEN count - 1 ELSE 0)

group_indicators(msg) == \E i \in 1..Len(msg) : msg[i] = "us"

Clamp(n) == IF n > max_party_size THEN max_party_size ELSE n

_extract_party_sizeRelationshipFirst(msg) ==
    IF Relationships(msg) # {} THEN Clamp(relationship(msg))
    ELSE IF strict_solo_patterns(msg) THEN Clamp(1)
    ELSE IF ExplicitNumbers(msg) # {} THEN Clamp(explicit_number(msg))
    ELSE IF group_indicators(msg) THEN Clamp(2)
    ELSE NoPartySize

_extract_party_size(msg) ==
    IF strict_solo_patterns(msg) THEN Clamp(1)
    ELSE IF ExplicitNumbers(msg) # {} THEN Clamp(explicit_number(msg))
    ELSE IF Relationships(msg) # {} THEN Clamp(relationship(msg))
    ELSE IF group_indicators(msg) THEN Clamp(2)
    ELSE NoPartySize

\* ---------------------------------------------------- UniversalShopAgent
\* what a message contains: a cancellation word, a confirmation word, the
\* fields the extractor finds, the identifiers the cancellation flow finds;
\* and what fails while it is handled
Words    == {"none", "yes", "reserve", "please"}
Extracts == {NoData}
            \cup {Data(d, t, 1) : d \in Dates, t \in Times}
            \cup {Data(NoDT, t, NoDT) : t \in Times}
Faults   == SessionFaults \cup {"context"}
\* what can fail while a cancellation is handled: loading the shop context,
\* the reservation database, reading the identifiers off the text
CancelFaults == {"none", "context", "storage", "extract"}

Msg(cancel, word, ext, rid, phone, email, fault) ==
    [cancel |-> cancel, word |-> word, ext |-> ext,
     rid |-> rid, phone |-> phone, email |-> email, fault |-> fault]

Messages ==
    {Msg(FALSE, w, x, NoId, None, None, f) : w \in Words, x \in Extracts, f \in Faults}
    \cup {Msg(TRUE, "none", NoData, rid, p, e, f) :
            rid \in Ids \cup {NoId}, p \in Phones \cup {None}, e \in Emails \cup {None},
            f \in {"none", "context"}}

\* base_agent.py confirmation_words; reservation_handler.py affirmative words
InConfirmationWords(w) == w \in {"yes", "reserve"}
InAffirmativeWords(w)  == w \in {"yes", "please"}

Reply(kind, id) == [kind |-> kind, id |-> id]

\* the "success" of the dictionary each kind of reply returns
success(kind) ==
    kind \in {"summary", "chat", "confirmed", "abandoned", "ongoing_cancelled",
              "cancel_stopped", "need_identifier", "cancel_ok"}

required_fields(data) == data.date # NoDT /\ data.time # NoDT /\ data.party # NoDT

\* the request threads; where a thread is, and for which session and shop
Threads == {"t1", "t2", "t3"}

At(at, sid, shop) == [at |-> at, sid |-> sid, shop |-> shop]
Idle == At("idle", "none", "none")

\* a turn of the session is between its first and its last step
InTurn(sid) == \E t \in Threads : pc[t].sid = sid /\ pc[t].at \in {"llm", "save"}

\* with self._session_lock: the thread enters when no other thread holds it
CanAcquireNoLock(owner) == TRUE

CanAcquire(owner) == owner = "free"

\* CancellationHandler.cancel_existing_reservation_enhanced: the identifiers
\* of the text, else the phone of the session, else its email
CancelKeys(s, m) ==
    IF HasId(m.rid) \/ HasStr(m.phone) \/ HasStr(m.email)
    THEN [rid |-> m.rid, phone |-> m.phone, email |-> m.email]
    ELSE IF HasStr(s.user_phone)
    THEN [rid |-> NoId, phone |-> s.user_phone, email |-> None]
    ELSE IF HasStr(s.user_email)
    THEN [rid |-> NoId, phone |-> None, email |-> s.user_email]
    ELSE [rid |-> NoId, phone |-> None, email |-> None]

\* the turn ends: the session and its row, the cache, the reply, the table of
\* the shop, and the lock is released
EndTurn(t, sid, shop, p, c, kind, id, rs) ==
    /\ sess' = [sess EXCEPT ![sid] = p.c]
    /\ db' = [db EXCEPT ![sid] = p.d]
    /\ cache' = [cache EXCEPT ![sid] = c]
    /\ reply' = [reply EXCEPT ![sid] = Reply(kind, id)]
    /\ rows' = [rows EXCEPT ![get_reservation_db_path(shop)] = rs]
    /\ pc' = [pc EXCEPT ![t] = Idle]
    /\ lock' = IF lock = t THEN "free" ELSE lock
    /\ UNCHANGED last

\* the turn goes on in a later step of the thread, which keeps the lock
Continue(t, sid, shop, p, c, at) ==
    /\ sess' = [sess EXCEPT ![sid] = p.c]
    /\ db' = [db EXCEPT ![sid] = p.d]
    /\ cache' = [cache EXCEPT ![sid] = c]
    /\ pc' = [pc EXCEPT ![t] = At(at, sid, shop)]
    /\ lock' = t
    /\ UNCHANGED <<rows, reply, last>>

\* except Exception of handle_shop_request: the emergency response
emergency(t, sid, shop, p, c) ==
    EndTurn(t, sid, shop, p, add_to_conversation_cache(c, "assistant"),
            "emergency", NoId, rows[get_reservation_db_path(shop)])

\* a cancellation flow without its exception handlers: what is raised goes
\* on to the handler of handle_shop_request
handle_cancellationNoExcept(t, sid, shop, m, p, c) ==
    LET rs   == rows[get_reservation_db_path(shop)]
        keys == CancelKeys(p.c, m)
        said == add_to_conversation_cache(c, "assistant")
        anew == add_to_conversation_cache(clear_conversation_cache(c), "assistant")
    IN  IF p.c.reservation_state # None
        THEN IF m.fault = "context"
             THEN emergency(t, sid, shop, clear_reservation_state(p), c)
             ELSE EndTurn(t, sid, shop,
                          update_conversation(clear_reservation_state(p)), anew,
                          "ongoing_cancelled", NoId, rs)
        ELSE IF m.fault = "extract"
        THEN emergency(t, sid, shop, p, c)
        ELSE IF ~(HasId(keys.rid) \/ HasStr(keys.phone) \/ HasStr(keys.email))
        THEN EndTurn(t, sid, shop, update_conversation(p), said,
                     "need_identifier", NoId, rs)
        ELSE IF m.fault = "storage"
        THEN EndTurn(t, sid, shop, update_conversation(p), said,
                     "cancel_not_found", NoId, rs)
        ELSE \E pick \in Picks(EnhancedSelect(rs, keys.rid, keys.phone, keys.email)) :
                LET res == cancel_reservation_enhanced(rs, pick)
                IN  IF res.success
                    THEN EndTurn(t, sid, shop,
                                 update_conversation(clear_reservation_state(p)),
                                 anew, "cancel_ok", res.id, res.rows)
                    ELSE EndTurn(t, sid, shop, update_conversation(p), said,
                                 "cancel_not_found", NoId, rs)

\* CancellationHandler.handle_cancellation: cancel_ongoing_reservation with a
\* reservation state, cancel_existing_reservation_enhanced without; the
\* handlers of both answer what is raised inside
handle_cancellation(t, sid, shop, m, p, c) ==
    LET rs   == rows[get_reservation_db_path(shop)]
        keys == CancelKeys(p.c, m)
        said == add_to_conversation_cache(c, "assistant")
        anew == add_to_conversation_cache(clear_conversation_cache(c), "assistant")
    IN  IF p.c.reservation_state # None
        THEN IF m.fault = "context"
             THEN EndTurn(t, sid, shop, clear_reservation_state(p), said,
                          "cancel_stopped", NoId, rs)
             ELSE EndTurn(t, sid, shop,
                          update_conversation(clear_reservation_state(p)), anew,
                          "ongoing_cancelled", NoId, rs)
        ELSE IF m.fault = "extract"
        THEN EndTurn(t, sid, shop, update_conversation(p), said,
                     "cancel_error", NoId, rs)
        ELSE IF ~(HasId(keys.rid) \/ HasStr(keys.phone) \/ HasStr(keys.email))
        THEN EndTurn(t, sid, shop, update_conversation(p), said,
                     "need_identifier", NoId, rs)
        ELSE IF m.fault = "storage"
        THEN EndTurn(t, sid, shop, update_conversation(p), said,
                     "cancel_not_found", NoId, rs)
        ELSE \E pick \in Picks(EnhancedSelect(rs, keys.rid, keys.phone, keys.email)) :
                LET res == cancel_reservation_enhanced(rs, pick)
                IN  IF res.success
                    THEN EndTurn(t, sid, shop,
                                 update_conversation(clear_reservation_state(p)),
                                 anew, "cancel_ok", res.id, res.rows)
                    ELSE EndTurn(t, sid, shop, update_conversation(p), said,
                                 "cancel_not_found", NoId, rs)

\* ReservationHandler.process_reservation_confirmation up to the availability
\* check; p is the session after the merge of handle_shop_request
process_reservation_confirmation(t, sid, shop, m, p, c) ==
    LET rs      == rows[get_reservation_db_path(shop)]
        pending == p.c.pending_reservation
        said    == add_to_conversation_cache(c, "assistant")
        anew    == add_to_conversation_cache(clear_conversation_cache(c), "assistant")
    IN  IF m.fault = "context"
        THEN emergency(t, sid, shop, clear_reservation_state(p),
                       clear_conversation_cache(c))
        ELSE IF ~pending.set
        THEN EndTurn(t, sid, shop, update_conversation(p), anew,
                     "no_pending", NoId, rs)
        ELSE IF ~InAffirmativeWords(m.word)
        THEN EndTurn(t, sid, shop, update_conversation(clear_reservation_state(p)),
                     reset_conversation_context(anew), "abandoned", NoId, rs)
        ELSE IF ~_check_within_shop_hours(pending.time, operating_hours[shop])
        THEN EndTurn(t, sid, shop, update_conversation(p), said,
                     "outside_hours", NoId, rs)
        ELSE IF ~check_availability(rs, max_reservations_per_hour[shop],
                                    pending.date, pending.time)
        THEN EndTurn(t, sid, shop, update_conversation(clear_reservation_state(p)),
                     anew, "unavailable", NoId, rs)
        ELSE FreshIds(rs) # {} /\ Continue(t, sid, shop, p, c, "save")

\* UniversalShopAgent.handle_shop_request, from the lock to the end of the
\* turn, or to the point where the thread saves the reservation or asks the
\* language model
handle_shop_request(t, sid, shop, m) ==
    /\ pc[t].at \in {"idle", "wait"}
    /\ pc[t].at = "wait" => pc[t].sid = sid
    /\ CanAcquire(lock)
    /\ LET g  == get_session(sid, shop, sess[sid], db[sid], m.fault)
           p0 == Pair(g.session, g.row)
           c0 == add_to_conversation_cache(cache[sid], "user")
       IN  IF g.raised
           THEN emergency(t, sid, shop, p0, cache[sid])
           ELSE IF m.cancel
           THEN handle_cancellation(t, sid, shop, m, p0, c0)
           ELSE LET state == p0.c.reservation_state
                    data  == Update(p0.c.reservation_data, m.ext)
                    p1    == IF m.ext # NoData
                             THEN set_reservation_state(p0, "collecting_info", data)
                             ELSE p0
                IN  IF /\ required_fields(data)
                       /\ state = "collecting_info"
                       /\ InConfirmationWords(m.word)
                    THEN IF m.fault = "context"
                         THEN emergency(t, sid, shop, p1, c0)
                         ELSE EndTurn(t, sid, shop,
                                update_conversation(
                                    set_reservation_state(
                                        set_pending_reservation(p1,
                                            Pending(TRUE, data, p0.c.user_phone,
                                                    p0.c.user_email)),
                                        "awaiting_confirmation", NoData)),
                                add_to_conversation_cache(c0, "assistant"),
                                "summary", NoId, rows[get_reservation_db_path(shop)])
                    ELSE IF state = "awaiting_confirmation"
                    THEN process_reservation_confirmation(t, sid, shop, m, p1, c0)
                    ELSE IF m.fault = "context"
                    THEN emergency(t, sid, shop, p1, c0)
                    ELSE Continue(t, sid, shop, p1, c0, "llm")

\* process_reservation_confirmation from the contact fill to the reply
confirm_save(t) ==
    /\ pc[t].at = "save"
    /\ LET sid     == pc[t].sid
           shop    == pc[t].shop
           p       == Pair(sess[sid], db[sid])
           rs      == rows[get_reservation_db_path(shop)]
           pending == p.c.pending_reservation
           filled  == [pending EXCEPT
                         !.phone = IF ~HasStr(@) /\ HasStr(p.c.user_phone)
                                   THEN p.c.user_phone ELSE @,
                         !.email = IF ~HasStr(@) /\ HasStr(p.c.user_email)
                                   THEN p.c.user_email ELSE @]
           anew    == add_to_conversation_cache(
                          clear_conversation_cache(cache[sid]), "assistant")
       IN  \E id \in FreshIds(rs) :
              LET res == save_reservation(rs, filled, id)
              IN  IF res.success
                  THEN EndTurn(t, sid, shop,
                               update_conversation(clear_reservation_state(p)),
                               reset_conversation_context(anew),
                               "confirmed", res.id, res.rows)
                  ELSE EndTurn(t, sid, shop,
                               update_conversation(clear_reservation_state(p)),
                               anew, "save_error", NoId, res.rows)

\* handle_shop_request from generate_ai_response to the reply
generate_ai_response(t) ==
    /\ pc[t].at = "llm"
    /\ LET sid == pc[t].sid
       IN  EndTurn(t, sid, pc[t].shop,
                   update_conversation(Pair(sess[sid], db[sid])),
                   add_to_conversation_cache(cache[sid], "assistant"),
                   "chat", NoId, rows[get_reservation_db_path(pc[t].shop)])

agentVars == <<sess, db, cache, pc, lock, reply>>

AgentInit ==
    /\ sess = [sid \in Sessions |-> NoSession]
    /\ db = [sid \in Sessions |-> NoRow]
    /\ cache = [sid \in Sessions |-> <<>>]
    /\ pc = [t \in Threads |-> Idle]
    /\ lock = "free"
    /\ reply = [sid \in Sessions |-> Reply("none", NoId)]

\* ------------------------------------------------------------ the record
Call(op, shop, ok, id, date, time, phone, email, key) ==
    [op |-> op, shop |-> shop, ok |-> ok, id |-> id, date |-> date,
     time |-> time, phone |-> phone, email |-> email, key |-> key]

NoCall == Call("init", "A", FALSE, NoId, NoDT, NoDT, None, None, NoId)

\* -------------------------------------------------------- StoreSpec
StoreInit ==
    /\ rows = [s \in Shops |-> <<>>]
    /\ last = NoCall
    /\ AgentInit

\* the shop whose database the direct calls of StoreSpec use
StoreShops == {"A"}

StoreCheck ==
    \E s \in StoreShops, d \in Dates \cup {NoDT}, t \in Times \cup {NoDT} :
        /\ last' = Call("check", s,
                        check_availability(rows[get_reservation_db_path(s)], max_reservations_per_hour[s], d, t),
                        NoId, d, t, None, None, NoId)
        /\ UNCHANGED <<rows, agentVars>>

StoreSave ==
    \E s \in StoreShops, d \in Dates \cup {NoDT}, t \in Times \cup {NoDT},
       p \in Phones \cup {None}, e \in Emails \cup {Empty} :
      \E id \in FreshIds(rows[get_reservation_db_path(s)]) :
        LET data == [phone |-> p, email |-> e, date |-> d, time |-> t, party |-> 1]
            res  == save_reservation(rows[get_reservation_db_path(s)], data, id)
        IN  /\ Len(rows[get_reservation_db_path(s)]) < MaxRows
            /\ rows' = [rows EXCEPT ![get_reservation_db_path(s)] = res.rows]
            /\ last' = Call("save", s, res.success, res.id, d, t, p, e, NoId)
            /\ UNCHANGED agentVars

StoreCancel ==
    \E s \in StoreShops, id \in Ids :
        LET res == cancel_reservation(rows[get_reservation_db_path(s)], id)
        IN  /\ rows' = [rows EXCEPT ![get_reservation_db_path(s)] = res.rows]
            /\ last' = Call("cancel", s, res.success, res.id, NoDT, NoDT, None, None, id)
            /\ UNCHANGED agentVars

StoreCancelEnhanced ==
    \E s \in StoreShops, id \in Ids \cup {NoId}, p \in Phones \cup {None},
       e \in Emails \cup {None} :
        \E pick \in Picks(EnhancedSelect(rows[get_reservation_db_path(s)], id, p, e)) :
            LET res == cancel_reservation_enhanced(rows[get_reservation_db_path(s)], pick)
            IN  /\ rows' = [rows EXCEPT ![get_reservation_db_path(s)] = res.rows]
                /\ last' = Call("cancel_enhanced", s, res.success, res.id,
                                IF pick = 0 THEN NoDT ELSE rows[get_reservation_db_path(s)][pick].date,
                                IF pick = 0 THEN NoDT ELSE rows[get_reservation_db_path(s)][pick].time,
                                p, e, id)
                /\ UNCHANGED agentVars

StoreFindByPhone ==
    \E s \in StoreShops, p \in Phones :
        \E pick \in Picks(ByPhone(rows[get_reservation_db_path(s)], p)) :
            /\ last' = Call("find_phone", s, pick # 0,
                            IF pick = 0 THEN NoId ELSE rows[get_reservation_db_path(s)][pick].id,
                            NoDT, NoDT, p, None, NoId)
            /\ UNCHANGED <<rows, agentVars>>

StoreFindByEmail ==
    \E s \in StoreShops, e \in Emails :
        \E pick \in Picks(ByEmail(rows[get_reservation_db_path(s)], e)) :
            /\ last' = Call("find_email", s, pick # 0,
                            IF pick = 0 THEN NoId ELSE rows[get_reservation_db_path(s)][pick].id,
                            NoDT, NoDT, None, e, NoId)
            /\ UNCHANGED <<rows, agentVars>>

StoreNext ==
    \/ StoreCheck
    \/ StoreSave
    \/ StoreCancel
    \/ StoreCancelEnhanced
    \/ StoreFindByPhone
    \/ StoreFindByEmail

StoreSpec == StoreInit /\ [][StoreNext]_vars

\* ------------------------------------------------------------------ Spec
\* the sessions that send messages in Spec, each on a connection of its own,
\* and the shop they talk to
DialogueSessions == {"s1", "s2"}
DialogueShop == "A"
ThreadOf(sid) == IF sid = "s1" THEN "t1" ELSE IF sid = "s2" THEN "t2" ELSE "t3"

Init ==
    /\ rows = [s \in Shops |-> <<>>]
    /\ last = NoCall
    /\ AgentInit

\* the messages of Spec: a booking (the fields, "yes" for the summary, "yes"
\* or another word to the summary), and a cancellation without identifiers
DialogueMessages ==
    {m \in Messages : /\ m.fault = "none"
                      /\ m.word \in {"none", "yes"}
                      /\ m.ext = NoData \/ required_fields(m.ext)
                      /\ m.rid = NoId /\ m.phone = None /\ m.email = None}

Turn ==
    \E sid \in DialogueSessions, m \in DialogueMessages :
        handle_shop_request(ThreadOf(sid), sid, DialogueShop, m)

Save == \E t \in Threads : confirm_save(t)

Answer == \E t \in Threads : generate_ai_response(t)

Next == Turn \/ Save \/ Answer

Spec == Init /\ [][Next]_vars

\* -------------------------------------------------------------- RaceSpec
\* capacity+1 sessions of one shop that have collected the same slot; each
\* sends "yes" twice: for the summary, then to confirm the pending reservation
Racers(shop) == IF max_reservations_per_hour[shop] = 1 THEN {"s1", "s2"}
                ELSE {"s1", "s2", "s3"}

RaceSlot == Data(1, 1, 1)

Collected(sid, shop) ==
    update_conversation(
        set_reservation_state(Pair(NewSession(sid, shop), CreatedRow(shop)),
                              "collecting_info", RaceSlot))

RaceInit ==
    /\ rows = [s \in Shops |-> <<>>]
    /\ last = NoCall
    /\ \E shop \in Shops :
          /\ sess = [sid \in Sessions |->
                       IF sid \in Racers(shop) THEN Collected(sid, shop).c
                       ELSE NewSession(sid, shop)]
          /\ db = [sid \in Sessions |->
                     IF sid \in Racers(shop) THEN Collected(sid, shop).d
                     ELSE CreatedRow(shop)]
    /\ cache = [sid \in Sessions |-> <<"user", "assistant">>]
    /\ pc = [t \in Threads |-> Idle]
    /\ lock = "free"
    /\ reply = [sid \in Sessions |-> Reply("none", NoId)]

RaceYes ==
    \E sid \in Sessions :
        /\ \/ reply[sid].kind = "none" /\ sess[sid].reservation_state = "collecting_info"
           \/ reply[sid].kind = "summary"
        /\ handle_shop_request(ThreadOf(sid), sid, sess[sid].shop_id,
                               Msg(FALSE, "yes", NoData, NoId, None, None, "none"))

RaceSave == \E t \in Threads : confirm_save(t)

RaceNext == RaceYes \/ RaceSave

RaceSpec == RaceInit /\ [][RaceNext]_vars

\* ------------------------------------------------------------ TenantSpec
\* the direct calls of StoreSpec for shop A while the database of shop B holds
\* confirmed rows of its own
TenantRow(i) ==
    NewRow([phone |-> "p1", email |-> "e1", date |-> 1, time |-> 1, party |-> 1], i)

TenantInit ==
    /\ \E n \in 1..max_reservations_per_hour["B"] :
          rows = [s \in Shops |-> IF s = "B" THEN [i \in 1..n |-> TenantRow(i)]
                                  ELSE <<>>]
    /\ last = NoCall
    /\ AgentInit

TenantNext == StoreNext

TenantSpec == TenantInit /\ [][TenantNext]_vars

\* ------------------------------------------------------------- DraftSpec
\* one session, every message and every fault
DraftThread == "t1"
DraftSession == "s1"

DraftTurn ==
    \E m \in Messages :
        handle_shop_request(DraftThread, DraftSession, DialogueShop, m)

DraftSave == confirm_save(DraftThread)

DraftAnswer == generate_ai_response(DraftThread)

DraftNext == DraftTurn \/ DraftSave \/ DraftAnswer

DraftSpec == Init /\ [][DraftNext]_vars

\* ------------------------------------------------------------ SerialSpec
\* two request threads that receive messages for the same session
SerialThreads == {"t1", "t2"}

\* the request arrives: the thread is about to enter the lock
SerialArrive ==
    \E t \in SerialThreads :
        /\ pc[t] = Idle
        /\ pc' = [pc EXCEPT ![t] = At("wait", DraftSession, DialogueShop)]
        /\ UNCHANGED <<rows, last, sess, db, cache, lock, reply>>

SerialTurn ==
    \E t \in SerialThreads, m \in Messages :
        /\ pc[t].at = "wait"
        /\ handle_shop_request(t, DraftSession, DialogueShop, m)

SerialSave == \E t \in SerialThreads : confirm_save(t)

SerialAnswer == \E t \in SerialThreads : generate_ai_response(t)

SerialNext == SerialArrive \/ SerialTurn \/ SerialSave \/ SerialAnswer

SerialSpec == Init /\ [][SerialNext]_vars

\* ----------------------------------------------------------- SessionSpec
\* the EnhancedSessionManager methods called directly, with the faults of the
\* durable layer, and the sweep of expired sessions
SessionCall(op, sid, shop, ok, fault) ==
    [op |-> op, sid |-> sid, shop |-> shop, ok |-> ok, fault |-> fault]

SessionIds == {"s1"}

SessionGet ==
    \E sid \in SessionIds, shop \in Shops, f \in SessionFaults :
        LET g == get_session(sid, shop, sess[sid], db[sid], f)
        IN  /\ sess' = [sess EXCEPT ![sid] = g.session]
            /\ db' = [db EXCEPT ![sid] = g.row]
            /\ last' = SessionCall("get_session", sid, shop, ~g.raised, f)
            /\ UNCHANGED <<rows, cache, pc, lock, reply>>

\* the durable write of a mutator succeeds, or raises inside its try
WriteFaults == {"none", "write"}

\* a mutator: the cache is updated first; what the durable write raises is
\* logged, the row stays as it was and the call returns
SessionWrite(op, sid, p, fault) ==
    /\ sess' = [sess EXCEPT ![sid] = p.c]
    /\ db' = IF fault = "write" THEN db ELSE [db EXCEPT ![sid] = p.d]
    /\ last' = SessionCall(op, sid, sess[sid].shop_id, TRUE, fault)
    /\ UNCHANGED <<rows, cache, pc, lock, reply>>

SessionSetState ==
    \E sid \in SessionIds, x \in {e \in Extracts : e = NoData \/ required_fields(e)},
       state \in {"collecting_info", "awaiting_confirmation"}, f \in WriteFaults :
        SessionWrite("set_reservation_state", sid,
                     set_reservation_state(Pair(sess[sid], db[sid]), state, x), f)

SessionSetPending ==
    \E sid \in SessionIds, f \in WriteFaults :
        /\ required_fields(sess[sid].reservation_data)
        /\ SessionWrite("set_pending_reservation", sid,
                        set_pending_reservation(Pair(sess[sid], db[sid]),
                            Pending(TRUE, sess[sid].reservation_data,
                                    user_phone[sid], user_email[sid])),
                        f)

SessionClear ==
    \E sid \in SessionIds, f \in WriteFaults :
        SessionWrite("clear_reservation_state", sid,
                     clear_reservation_state(Pair(sess[sid], db[sid])), f)

SessionUpdateConversation ==
    \E sid \in SessionIds, f \in WriteFaults :
        SessionWrite("update_conversation", sid,
                     update_conversation(Pair(sess[sid], db[sid])), f)

SessionSweep ==
    \E sid \in SessionIds :
        /\ sess[sid] # NoSession
        /\ sess' = [sess EXCEPT ![sid] = expire(@)]
        /\ last' = SessionCall("sweep", sid, sess[sid].shop_id, TRUE, "none")
        /\ UNCHANGED <<rows, db, cache, pc, lock, reply>>

SessionNext ==
    \/ SessionGet
    \/ SessionSetState
    \/ SessionSetPending
    \/ SessionClear
    \/ SessionUpdateConversation
    \/ SessionSweep

SessionSpec == Init /\ [][SessionNext]_vars

\* ----------------------------------------------------------- BookingSpec
\* the booking turns of one session, without faults: of a session whose
\* client sends a phone, or of one whose client sends none; the messages hold
\* any word and any of the fields, the party size also on its own
BookingSessions == {"s1", "s4"}

BookingExtracts == Extracts \cup {Data(NoDT, NoDT, 2)}

BookingMessages ==
    {Msg(FALSE, w, x, NoId, None, None, "none") : w \in Words, x \in BookingExtracts}
    \cup {Msg(TRUE, "none", NoData, NoId, None, None, "none")}

\* no other session has been used
OnlySession(sid) == \A o \in Sessions \ {sid} : sess[o] = NoSession

BookingTurn ==
    \E sid \in BookingSessions, m \in BookingMessages :
        /\ OnlySession(sid)
        /\ handle_shop_request(ThreadOf(sid), sid, DialogueShop, m)

BookingSave == \E t \in Threads : confirm_save(t)

BookingAnswer == \E t \in Threads : generate_ai_response(t)

BookingNext == BookingTurn \/ BookingSave \/ BookingAnswer

BookingSpec == Init /\ [][BookingNext]_vars

\* ------------------------------------------------------------ CancelSpec
\* cancellation messages, with any identifiers in the text, of one session in
\* state None: of a session with a known phone and email, with a known email
\* only, or with neither; the shop's table holds two reservations
CancelSessions == {"s1", "s4", "s5"}

CancelTables ==
    {<< NewRow([phone |-> p, email |-> e, date |-> 1, time |-> 1, party |-> 1], 1),
        NewRow([phone |-> q, email |-> f, date |-> 1, time |-> MaxTime, party |-> 1], 2) >> :
        p \in Phones, q \in Phones, e \in Emails \cup {Empty}, f \in Emails \cup {Empty}}

CancelInit ==
    /\ \E table \in CancelTables :
          rows = [s \in Shops |-> IF s = DialogueShop THEN table ELSE <<>>]
    /\ last = NoCall
    /\ AgentInit

CancelMessages ==
    {Msg(TRUE, "none", NoData, rid, p, e, "none") :
        rid \in Ids \cup {NoId}, p \in Phones \cup {None}, e \in Emails \cup {None}}

CancelTurn ==
    \E sid \in CancelSessions, m \in CancelMessages :
        /\ OnlySession(sid)
        /\ handle_shop_request(ThreadOf(sid), sid, DialogueShop, m)

CancelNext == CancelTurn

CancelSpec == CancelInit /\ [][CancelNext]_vars

\* ----------------------------------------------------------- OngoingSpec
\* one session that collects a slot, confirms it or not, and sends
\* cancellation messages in every state: with or without an affirmative word
\* and identifiers in the text, and with the faults of the cancellation flow
OngoingMessages ==
    {Msg(FALSE, w, x, NoId, None, None, "none") :
        w \in {"none", "yes"}, x \in {NoData, Data(1, 1, 1)}}
    \cup {Msg(TRUE, w, NoData, rid, p, e, f) :
            w \in {"none", "yes"}, rid \in Ids \cup {NoId}, p \in Phones \cup {None},
            e \in Emails \cup {None}, f \in CancelFaults}

OngoingTurn ==
    \E m \in OngoingMessages :
        handle_shop_request(DraftThread, DraftSession, DialogueShop, m)

OngoingSave == confirm_save(DraftThread)

OngoingAnswer == generate_ai_response(DraftThread)

OngoingNext == OngoingTurn \/ OngoingSave \/ OngoingAnswer

OngoingSpec == Init /\ [][OngoingNext]_vars

\* ---------------------------------------------------------- ValidateSpec
\* validate_date_time called once on each input
ValidateCall(op, parses, ahead, tod, min_hours, max_days, hours, v) ==
    [op |-> op, parses |-> parses, ahead |-> ahead,
     tod |-> tod, min_hours |-> min_hours, max_days |-> max_days,
     hours |-> hours, ok |-> v.ok, reason |-> v.reason]

ValidateInit ==
    /\ rows = [s \in Shops |-> <<>>]
    /\ AgentInit
    /\ \E parses \in BOOLEAN, ahead \in Ahead, tod \in Clock,
          min_hours \in MinHours, max_days \in MaxDays, hours \in ShopHours :
           last = ValidateCall("input", parses, ahead, tod, min_hours, max_days,
                               hours, Verdict(FALSE, "pending"))

Validate ==
    /\ last.op = "input"
    /\ last' = [last EXCEPT
           !.op = "validate_date_time",
           !.ok = validate_date_time(last.parses, last.ahead, last.tod,
                      last.min_hours, last.max_days, last.hours).ok,
           !.reason = validate_date_time(last.parses, last.ahead, last.tod,
                          last.min_hours, last.max_days, last.hours).reason]
    /\ UNCHANGED <<rows, sess, db, cache, pc, lock, reply>>

ValidateNext == Validate

ValidateSpec == ValidateInit /\ [][ValidateNext]_vars

\* ----------------------------------------------------------- ExtractSpec
\* _extract_party_size called once on each message
ExtractCall(op, msg, party_size) == [op |-> op, msg |-> msg, party_size |-> party_size]

ExtractInit ==
    /\ rows = [s \in Shops |-> <<>>]
    /\ AgentInit
    /\ \E msg \in Texts : last = ExtractCall("input", msg, NoPartySize)

Extract ==
    /\ last.op = "input"
    /\ last' = ExtractCall("_extract_party_size", last.msg, _extract_party_size(last.msg))
    /\ UNCHANGED <<rows, sess, db, cache, pc, lock, reply>>

ExtractNext == Extract

ExtractSpec == ExtractInit /\ [][ExtractNext]_vars

\* ------------------------------------------------------------- SweepSpec
\* get_session with its sweep, update_conversation and the passing of time:
\* last holds the clock, session['last_activity'] of the cached sessions and
\* the last_activity column of the rows (auto_now: the time of the last save)
session_timeout == 1
NoTime == 0 - 1

expired_sessionsAtTimeout(activity, now) ==
    {sid \in DOMAIN activity :
        activity[sid] # NoTime /\ now - activity[sid] >= session_timeout}

expired_sessions(activity, now) ==
    {sid \in DOMAIN activity :
        activity[sid] # NoTime /\ now - activity[sid] > session_timeout}

SweepIds == {"s1", "s2"}

SweepCall(op, sid, now, activity, stored) ==
    [op |-> op, sid |-> sid, now |-> now, last_activity |-> activity,
     stored |-> stored]

SweepInit ==
    /\ rows = [s \in Shops |-> <<>>]
    /\ AgentInit
    /\ last = SweepCall("init", "s1", 0, [sid \in SweepIds |-> NoTime],
                        [sid \in SweepIds |-> NoTime])

SweepGet ==
    \E sid \in SweepIds, f \in SessionFaults :
        LET expired == expired_sessions(last.last_activity, last.now)
            swept   == [o \in Sessions |-> IF o \in expired THEN expire(sess[o])
                                           ELSE sess[o]]
            g       == get_session(sid, DialogueShop, swept[sid], db[sid], f)
            at      == IF swept[sid] # NoSession \/ f = "load" THEN last.now
                       ELSE IF db[sid] # NoRow THEN last.stored[sid]
                       ELSE IF g.raised THEN NoTime
                       ELSE last.now
        IN  /\ sess' = [swept EXCEPT ![sid] = g.session]
            /\ db' = [db EXCEPT ![sid] = g.row]
            /\ last' = SweepCall("get_session", sid, last.now,
                           [o \in SweepIds |->
                               IF o = sid THEN at
                               ELSE IF o \in expired THEN NoTime
                               ELSE last.last_activity[o]],
                           [last.stored EXCEPT
                               ![sid] = IF db[sid] = NoRow /\ g.row # NoRow
                                        THEN last.now ELSE @])
            /\ UNCHANGED <<rows, cache, pc, lock, reply>>

SweepTouch ==
    \E sid \in SweepIds, f \in WriteFaults :
        /\ sess[sid] # NoSession
        /\ last' = SweepCall("update_conversation", sid, last.now,
                       [last.last_activity EXCEPT ![sid] = last.now],
                       [last.stored EXCEPT
                           ![sid] = IF db[sid] # NoRow /\ f = "none"
                                    THEN last.now ELSE @])
        /\ UNCHANGED <<rows, sess, db, cache, pc, lock, reply>>

SweepTick ==
    /\ last.now < MaxClock
    /\ last' = [last EXCEPT !.op = "tick", !.now = @ + 1]
    /\ UNCHANGED <<rows, sess, db, cache, pc, lock, reply>>

SweepNext == SweepGet \/ SweepTouch \/ SweepTick

SweepSpec == SweepInit /\ [][SweepNext]_vars

\* ----------------------------------------------------------- ContactSpec
\* the messages of one session key whose contact hints change from message to
\* message: the hints of a message are those the client h sends; between the
\* messages update_conversation runs, with or without its durable write, and
\* the sweep evicts the session
ContactKey == "s1"

ContactCall(op, hints, fault) == [op |-> op, hints |-> hints, fault |-> fault]

ContactInit ==
    /\ rows = [s \in Shops |-> <<>>]
    /\ AgentInit
    /\ last = ContactCall("init", ContactKey, "none")

ContactGet ==
    \E h \in Sessions, f \in SessionFaults :
        LET g == get_session(h, DialogueShop, sess[ContactKey], db[ContactKey], f)
        IN  /\ sess' = [sess EXCEPT ![ContactKey] = g.session]
            /\ db' = [db EXCEPT ![ContactKey] = g.row]
            /\ last' = ContactCall("get_session", h, f)
            /\ UNCHANGED <<rows, cache, pc, lock, reply>>

ContactUpdate ==
    \E f \in WriteFaults :
        LET p == update_conversation(Pair(sess[ContactKey], db[ContactKey]))
        IN  /\ sess[ContactKey] # NoSession
            /\ db' = IF f = "write" THEN db ELSE [db EXCEPT ![ContactKey] = p.d]
            /\ last' = ContactCall("update_conversation", last.hints, f)
            /\ UNCHANGED <<rows, sess, cache, pc, lock, reply>>

ContactSweep ==
    /\ sess[ContactKey] # NoSession
    /\ sess' = [sess EXCEPT ![ContactKey] = expire(@)]
    /\ last' = ContactCall("sweep", last.hints, "none")
    /\ UNCHANGED <<rows, db, cache, pc, lock, reply>>

ContactNext == ContactGet \/ ContactUpdate \/ ContactSweep
ContactSpec == ContactInit /\ [][ContactNext]_vars

\* ------------------------------------------------------------- CacheSpec
\* the conversation cache of one session under add_to_conversation_cache,
\* clear_conversation_cache and reset_conversation_context; an entry is the
\* role with the arrival number of the message standing for its content, and
\* last holds the call, the next arrival number and the cache before the call
CacheKey == "s1"

Entry(role, n) == [role |-> role, content |-> n]

CacheCall(op, n, before) == [op |-> op, n |-> n, before |-> before]

CacheInit ==
    /\ rows = [s \in Shops |-> <<>>]
    /\ AgentInit
    /\ last = CacheCall("init", 1, <<>>)

CacheStep(op, n, c) ==
    /\ cache' = [cache EXCEPT ![CacheKey] = c]
    /\ last' = CacheCall(op, n, cache[CacheKey])
    /\ UNCHANGED <<rows, sess, db, pc, lock, reply>>

CacheAdd ==
    \E role \in {"user", "assistant"} :
        /\ last.n <= MaxSent
        /\ CacheStep("add", last.n + 1,
                     add_to_conversation_cache(cache[CacheKey], Entry(role, last.n)))

CacheClear ==
    /\ CacheKey \in DOMAIN cache
    /\ CacheStep("clear", last.n, clear_conversation_cache(cache[CacheKey]))

CacheReset ==
    /\ last.n <= MaxSent
    /\ CacheStep("reset", last.n + 1,
                 LET cleared == clear_conversation_cache(cache[CacheKey])
                 IN  add_to_conversation_cache(cleared, Entry("assistant", last.n)))

CacheNext == CacheAdd \/ CacheClear \/ CacheReset
CacheSpec == CacheInit /\ [][CacheNext]_vars

\* --------------------------------------------------------------- LlmSpec
\* the turns of one session with the text-completion collaborator answering
\* or failing: a text is its source and its length after clean_ai_response
min_response_length == 10
fallback_length == 47

Clients == {"client", None}

Text(source, len) == [source |-> source, len |-> len]

Completions ==
    {Text("raises", 0), Text("timeout", 0)}
    \cup {Text("completion", n) :
            n \in {0, min_response_length - 1, min_response_length,
                   min_response_length + 1}}

_generate_context_aware_fallback == Text("fallback", fallback_length)

\* a response handler that returns whatever text the completion call gave
response_textUnchecked(client, completion) ==
    IF client = None THEN _generate_context_aware_fallback
    ELSE IF completion.source \in {"raises", "timeout"}
    THEN _generate_context_aware_fallback
    ELSE completion

response_text(client, completion) ==
    IF client = None THEN _generate_context_aware_fallback
    ELSE IF completion.source \in {"raises", "timeout"}
    THEN _generate_context_aware_fallback
    ELSE IF completion.len = 0 \/ completion.len < min_response_length
    THEN _generate_context_aware_fallback
    ELSE completion

\* last holds the text the turn returned
LlmCall(text) == [op |-> "generate_ai_response", text |-> text]

LlmInit ==
    /\ rows = [s \in Shops |-> <<>>]
    /\ AgentInit
    /\ last = LlmCall(Text("none", 0))

LlmMessages ==
    {m \in Messages : /\ m.fault = "none"
                      /\ m.word \in {"none", "yes"}
                      /\ m.rid = NoId /\ m.phone = None /\ m.email = None}

LlmTurn ==
    \E m \in LlmMessages :
        handle_shop_request(DraftThread, DraftSession, DialogueShop, m)

LlmSave == confirm_save(DraftThread)

LlmAnswerWith(client, completion) ==
    LET sid == pc[DraftThread].sid
        p   == update_conversation(Pair(sess[sid], db[sid]))
    IN  /\ pc[DraftThread].at = "llm"
        /\ sess' = [sess EXCEPT ![sid] = p.c]
        /\ db' = [db EXCEPT ![sid] = p.d]
        /\ cache' = [cache EXCEPT ![sid] = add_to_conversation_cache(@, "assistant")]
        /\ reply' = [reply EXCEPT ![sid] = Reply("chat", NoId)]
        /\ pc' = [pc EXCEPT ![DraftThread] = Idle]
        /\ lock' = IF lock = DraftThread THEN "free" ELSE lock
        /\ last' = LlmCall(response_text(client, completion))
        /\ UNCHANGED rows

LlmAnswer ==
    \E client \in Clients, completion \in Completions :
        LlmAnswerWith(client, completion)

LlmNext == LlmTurn \/ LlmSave \/ LlmAnswer
LlmSpec == LlmInit /\ [][LlmNext]_vars

\* ------------------------------------------------------------- SlotsSpec
\* generate_alternative_slots(base_datetime, shop_hours): a day has the hours
\* 0..MaxHour and a time of day counts half hours (2 * hour, + 1 for :30); a
\* moment is the number of half hours since 0:00 of the day of base_datetime,
\* whose weekday is numbered 0; the 2 PM slot of the lookahead days is the
\* hour default_hour of the day
default_hour == 2
lookahead_days == <<1, 2, 3, 7>>

HalfHours == 0..(2 * MaxHour + 1)
DayLength == 2 * MaxHour + 2
Moment(day, tod) == day * DayLength + tod
DayOf(moment) == moment \div DayLength
TodOf(moment) == moment % DayLength
Weekday(day) == day % 7
HourOf(tod) == tod \div 2

\* shop_hours: None or {} (NoWeek), or the hours of each weekday: those of the
\* weekday of base_datetime, the three weekdays after it open or closed, the
\* other weekdays not a key
WeekHours(hours, open_days) ==
    [w \in 0..6 |-> IF w = 0 THEN hours
                    ELSE IF w \in open_days THEN Window(0, 2 * MaxHour)
                    ELSE IF w \in 1..3 THEN DayHours("closed")
                    ELSE DayHours("missing")]

SlotHours ==
    {DayHours(k) : k \in {"missing", "empty", "closed", "unparsed"}}
    \cup {Window(o, c) : o \in HalfHours, c \in HalfHours}

NoWeek == [w \in 0..6 |-> NoHours]

Weeks == {NoWeek} \cup {WeekHours(h, d) : h \in SlotHours, d \in SUBSET (1..3)}

Nows == {Moment(0 - 1, 0), Moment(7, 2 * MaxHour + 1)}
        \cup {Moment(d, t) : d \in 0..1, t \in HalfHours}

\* the hourly slots of the day of base_datetime: hour = open_time.hour,
\* while hour < close_time.hour, replace(hour=hour, minute=0), kept when later
\* than the current time
same_day_slots(now, week) ==
    IF week = NoWeek \/ week[0].kind # "window" THEN {}
    ELSE {Moment(0, 2 * hour) : hour \in
            {h \in 0..MaxHour : /\ HourOf(week[0].open) <= h
                                /\ h < HourOf(week[0].close)
                                /\ Moment(0, 2 * h) > now}}

\* for days_ahead in [1, 2, 3, 7], from the i-th on: break at four slots; the
\* slot of a day whose hours are there and not "closed" is added when it is
\* later than the current time
RECURSIVE lookahead_slots(_, _, _, _)
lookahead_slots(alternatives, i, now, week) ==
    IF i > Len(lookahead_days) \/ Cardinality(alternatives) >= 4 THEN alternatives
    ELSE LET day  == lookahead_days[i]
             slot == Moment(day, 2 * default_hour)
             open == /\ week # NoWeek
                     /\ week[Weekday(day)].kind \in {"window", "unparsed"}
         IN  lookahead_slots(IF open /\ slot > now THEN alternatives \cup {slot}
                             ELSE alternatives,
                             i + 1, now, week)

\* alternatives.sort()
RECURSIVE Sorted(_)
Sorted(S) ==
    IF S = {} THEN <<>>
    ELSE LET m == CHOOSE x \in S : \A y \in S : x <= y
         IN  <<m>> \o Sorted(S \ {m})

generate_alternative_slots(now, week) ==
    LET same == same_day_slots(now, week)
        all  == IF Cardinality(same) < 3 THEN lookahead_slots(same, 1, now, week)
                ELSE same
        s    == Sorted(all)
    IN  SubSeq(s, 1, IF Len(s) < 4 THEN Len(s) ELSE 4)

SlotsCall(op, now, week, slots) ==
    [op |-> op, now |-> now, week |-> week, slots |-> slots]

SlotsInit ==
    /\ rows = [s \in Shops |-> <<>>]
    /\ AgentInit
    /\ \E now \in Nows, week \in Weeks : last = SlotsCall("input", now, week, <<>>)

Slots ==
    /\ last.op = "input"
    /\ last' = [last EXCEPT !.op = "generate_alternative_slots",
                            !.slots = generate_alternative_slots(last.now, last.week)]
    /\ UNCHANGED <<rows, sess, db, cache, pc, lock, reply>>

SlotsNext == Slots
SlotsSpec == SlotsInit /\ [][SlotsNext]_vars

\* ------------------------------------------------------------ PolicySpec
\* comprehensive_reservation_validation of a draft with a date and a time:
\* the requested moment is a time of the day numbered 0, compared with the
\* current time in half hours; the name, phone, email and party size of the
\* draft are left out
NoMoment == 0 - 1

\* the third value validate_date_time returns: the moment when it is valid,
\* None with every rejection
validated_dt(verdict, requested) == IF verdict.ok THEN requested ELSE NoMoment

comprehensive_reservation_validation(parses, tod, now, min_hours, max_days, week) ==
    LET v  == validate_date_time(parses, Moment(0, tod) - now, tod, min_hours,
                                 max_days, IF week = NoWeek THEN NoHours ELSE week[0])
        dt == validated_dt(v, Moment(0, tod))
    IN  [is_valid |-> v.ok,
         errors |-> IF v.ok THEN {} ELSE {v.reason},
         alternative_slots |-> IF dt # NoMoment
                               THEN generate_alternative_slots(now, week)
                               ELSE <<>>]

PolicyWeeks ==
    {NoWeek} \cup
    {WeekHours(h, d) :
        h \in {DayHours("closed")}
              \cup {Window(o, c) : o \in {0, 2, 2 * MaxHour}, c \in {0, 2, 2 * MaxHour}},
        d \in {{}, {1}}}

PolicyNows == {Moment(0 - 1, 0), Moment(0, 0), Moment(0, 2)}

PolicyCall(op, parses, tod, now, min_hours, max_days, week, result) ==
    [op |-> op, parses |-> parses, tod |-> tod, now |-> now,
     min_hours |-> min_hours, max_days |-> max_days, week |-> week,
     result |-> result]

PolicyInit ==
    /\ rows = [s \in Shops |-> <<>>]
    /\ AgentInit
    /\ \E parses \in BOOLEAN, tod \in HalfHours, now \in PolicyNows,
          min_hours \in {0, 2}, max_days \in {DayLength}, week \in PolicyWeeks :
           last = PolicyCall("input", parses, tod, now, min_hours, max_days, week,
                             [is_valid |-> TRUE, errors |-> {},
                              alternative_slots |-> <<>>])

Policy ==
    /\ last.op = "input"
    /\ last' = [last EXCEPT
           !.op = "comprehensive_reservation_validation",
           !.result = comprehensive_reservation_validation(last.parses, last.tod,
                          last.now, last.min_hours, last.max_days, last.week)]
    /\ UNCHANGED <<rows, sess, db, cache, pc, lock, reply>>

PolicyNext == Policy
PolicySpec == PolicyInit /\ [][PolicyNext]_vars

\* ------------------------------------------------------------- ClockSpec
\* the time extraction of _extract_date_time: the clock text a time pattern
\* matched is its hour (one or two digits), its minute (two digits, 0 where
\* the pattern has none) and its marker am, pm or none; the result is the
\* hour and the minute that are formatted as HH:MM
ClockHours == {0, 1, 9, 11, 12, 13, 17, 23, 24}
ClockMinutes == {0, 30, 45, 59, 60}
Markers == {"am", "pm", "none"}

ClockText(hour, minute, marker) == [hour |-> hour, minute |-> minute, marker |-> marker]

_extract_date_time(text) ==
    LET is_pm == text.marker = "pm"
    IN  [hour |-> IF is_pm /\ text.hour < 12 THEN text.hour + 12
                  ELSE IF ~is_pm /\ text.hour = 12 THEN 0
                  ELSE text.hour,
         minute |-> text.minute]

ClockCall(op, text, time) == [op |-> op, text |-> text, time |-> time]

ClockInit ==
    /\ rows = [s \in Shops |-> <<>>]
    /\ AgentInit
    /\ \E h \in ClockHours, m \in ClockMinutes, k \in Markers :
           last = ClockCall("input", ClockText(h, m, k), [hour |-> 0, minute |-> 0])

ClockExtract ==
    /\ last.op = "input"
    /\ last' = ClockCall("_extract_date_time", last.text, _extract_date_time(last.text))
    /\ UNCHANGED <<rows, sess, db, cache, pc, lock, reply>>

ClockNext == ClockExtract
ClockSpec == ClockInit /\ [][ClockNext]_vars

\* ------------------------------------------------------------- CrossSpec
\* one session key whose messages name the shop of the request: the session
\* is created by a message for the home shop, and every field of a draft
\* comes with a message for the home shop; the messages that name the other
\* shop hold no field
HomeShop == "A"

CrossMessages ==
    {m \in Messages : /\ m.fault = "none"
                      /\ m.word \in {"none", "yes"}
                      /\ m.rid = NoId /\ m.phone = None /\ m.email = None}

CrossTurn ==
    \E shop \in Shops, m \in CrossMessages :
        /\ shop # HomeShop => sess[DraftSession] # NoSession /\ m.ext = NoData
        /\ handle_shop_request(DraftThread, DraftSession, shop, m)

CrossSave == confirm_save(DraftThread)

CrossAnswer == generate_ai_response(DraftThread)

CrossNext == CrossTurn \/ CrossSave \/ CrossAnswer
CrossSpec == Init /\ [][CrossNext]_vars

\* ================================================================ claims
\* the rows of a slot, counted from the table itself
SlotRows(rs, date, time, status) ==
    SelectSeq(rs, LAMBDA r : r.date = date /\ r.time = time /\ r.status = status)

Booked(rs, date, time) == Len(SlotRows(rs, date, time, "confirmed"))

Cap(s) == max_reservations_per_hour[s]

\* the rows whose status the step changed, and the rows it added
Flipped(s) == {i \in Idx(rows[s]) : i \in Idx(rows'[s]) /\ rows'[s][i] # rows[s][i]}

OnlyFlips(s, i) ==
    /\ Len(rows'[s]) = Len(rows[s])
    /\ Flipped(s) = {i}
    /\ rows[s][i].status = "confirmed"
    /\ rows'[s][i] = [rows[s][i] EXCEPT !.status = "cancelled"]

IsCancelStep == last'.op \in {"cancel", "cancel_enhanced"}

\* C1: in every state that turns of any sessions reach, no slot of any shop
\* holds more confirmed rows than the shop's per-slot capacity.
C1_SlotCapacity ==
    \A shop \in Shops, d \in Dates, t \in Times :
        Booked(rows[shop], d, t) <= Cap(shop)

C1_Witness ==
    \E sid \in Sessions, d \in Dates, t \in Times :
        /\ reply[sid].kind = "unavailable"
        /\ Booked(rows[sess[sid].shop_id], d, t) = Cap(sess[sid].shop_id)
        /\ \E i \in Idx(rows[sess[sid].shop_id]) :
              rows[sess[sid].shop_id][i].status = "cancelled"

\* C2: when capacity+1 sessions awaiting the confirmation of the same slot of
\* one shop have all sent their "yes", exactly capacity-many were confirmed,
\* each with a row of its own, and every other one was answered unavailable
\* and has no row.
RaceShop == sess["s1"].shop_id

RaceDone ==
    \A sid \in Racers(RaceShop) :
        reply[sid].kind \notin {"none", "summary"} /\ ~InTurn(sid)

Confirmed(shop) == {sid \in Racers(shop) : reply[sid].kind = "confirmed"}

C2_ExactlyCapacityConfirmed ==
    RaceDone
    => /\ Cardinality(Confirmed(RaceShop)) = Cap(RaceShop)
       /\ Len(rows[RaceShop]) = Cap(RaceShop)
       /\ Booked(rows[RaceShop], RaceSlot.date, RaceSlot.time) = Cap(RaceShop)
       /\ \A sid \in Confirmed(RaceShop) :
             \E i \in Idx(rows[RaceShop]) : rows[RaceShop][i].id = reply[sid].id
       /\ \A sid \in Racers(RaceShop) \ Confirmed(RaceShop) :
             reply[sid].kind = "unavailable"

C2_Witness ==
    /\ RaceDone
    /\ Cap(RaceShop) > 1
    /\ \E sid \in Racers(RaceShop) : reply[sid].kind = "unavailable"

\* C10 (the claim as stated): whenever no turn of a session is in progress, the
\* session holds a pending reservation only if its state is
\* awaiting_confirmation.
C10_PendingOnlyWhileAwaiting ==
    \A sid \in Sessions :
        (~InTurn(sid) /\ sess[sid].pending_reservation.set)
        => sess[sid].reservation_state = "awaiting_confirmation"

\* C3 (the claim as stated): a save_reservation for a slot that already holds
\* capacity-many confirmed rows returns success=false and inserts no row.
C3_ReserveChecksCapacity ==
    [][\A s \in StoreShops :
        (/\ last'.op = "save"
         /\ HasDT(last'.date) /\ HasDT(last'.time)
         /\ Booked(rows[s], last'.date, last'.time) >= Cap(s))
        => (~last'.ok /\ rows'[s] = rows[s])]_vars

\* C4: check_availability(date, time) is true iff the confirmed rows of exactly
\* that date and time are fewer than the shop's capacity; cancelled rows and
\* rows of other slots do not count.
C4_AvailableIffBelowCapacity ==
    \A s \in StoreShops :
        (last.op = "check" /\ HasDT(last.date) /\ HasDT(last.time))
        => (last.ok <=> Booked(rows[s], last.date, last.time) < Cap(s))

C4_Witness ==
    \E s \in StoreShops :
        /\ last.op = "check" /\ last.ok
        /\ Len(SlotRows(rows[s], last.date, last.time, "cancelled")) >= Cap(s)
        /\ \E i \in Idx(rows[s]) : /\ rows[s][i].status = "confirmed"
                                   /\ rows[s][i].date = last.date
                                   /\ rows[s][i].time # last.time

\* C5: a successful cancellation lowers the confirmed count of the slot of the
\* cancelled row by one, leaves every other slot's count unchanged, and a slot
\* that held exactly capacity-many confirmed rows is available afterwards.
C5_CancelFreesOneSeat ==
    [][\A s \in StoreShops :
        (IsCancelStep /\ last'.ok)
        => \E i \in Idx(rows[s]) :
              /\ rows[s][i].id = last'.id
              /\ \A d \in Dates, t \in Times :
                    Booked(rows'[s], d, t) =
                        IF d = rows[s][i].date /\ t = rows[s][i].time
                        THEN Booked(rows[s], d, t) - 1
                        ELSE Booked(rows[s], d, t)
              /\ (Booked(rows[s], rows[s][i].date, rows[s][i].time) = Cap(s)
                    => check_availability(rows'[s], Cap(s),
                                          rows[s][i].date, rows[s][i].time))]_vars

C5_Witness ==
    \E s \in StoreShops : \E i, j \in Idx(rows[s]) :
        /\ last.op \in {"cancel", "cancel_enhanced"} /\ last.ok
        /\ rows[s][i].id = last.id
        /\ Booked(rows[s], rows[s][i].date, rows[s][i].time) = Cap(s) - 1
        /\ rows[s][j].status = "confirmed"
        /\ rows[s][j].phone = rows[s][i].phone

\* C6: the id a successful save returns names a confirmed row; a cancellation
\* by that id succeeds while the row is confirmed and sets it to cancelled;
\* once it is cancelled, a cancellation by the same id fails and changes
\* nothing, and the row never becomes confirmed again.
C6_ReserveCancelRoundTrip ==
    [][\A s \in StoreShops :
        /\ (last'.op = "save" /\ last'.ok)
              => (ById(rows[s], last'.id) = {} /\ ById(rows'[s], last'.id) # {})
        /\ (IsCancelStep /\ HasId(last'.key))
              => IF \E i \in Idx(rows[s]) : /\ rows[s][i].id = last'.key
                                            /\ rows[s][i].status = "confirmed"
                 THEN /\ last'.ok /\ last'.id = last'.key
                      /\ \E i \in Idx(rows[s]) : rows[s][i].id = last'.key /\ OnlyFlips(s, i)
                 ELSE ~last'.ok /\ rows'[s] = rows[s]
        /\ \A i \in Idx(rows[s]) :
              rows[s][i].status = "cancelled"
              => (i \in Idx(rows'[s]) /\ rows'[s][i] = rows[s][i])]_vars

C6_Witness ==
    \E s \in StoreShops : \E i \in Idx(rows[s]) :
        /\ last.op \in {"cancel", "cancel_enhanced"}
        /\ HasId(last.key) /\ ~last.ok
        /\ rows[s][i].id = last.key
        /\ rows[s][i].status = "cancelled"

\* C7 (the claim as stated): a cancellation by phone or email cancels exactly
\* one row, the most recently created (last inserted) of the matching
\* confirmed rows.
C7_CancelsMostRecentlyCreated ==
    [][\A s \in StoreShops :
        (last'.op = "cancel_enhanced" /\ ~HasId(last'.key) /\ last'.ok)
        => \E i \in Idx(rows[s]) :
              /\ OnlyFlips(s, i)
              /\ \A j \in Idx(rows[s]) :
                    (/\ rows[s][j].status = "confirmed"
                     /\ IF HasStr(last'.phone) THEN rows[s][j].phone = last'.phone
                        ELSE rows[s][j].email = last'.email)
                    => j <= i]_vars

\* C8: lookup and cancellation by phone or email return or cancel only a row
\* that is confirmed and carries the key; when no confirmed row carries the
\* key the result is not-found and no row changes.
ByKeyStep == \/ last'.op \in {"find_phone", "find_email"}
             \/ last'.op = "cancel_enhanced" /\ ~HasId(last'.key)
                   /\ (HasStr(last'.phone) \/ HasStr(last'.email))

Carries(r, c) == IF HasStr(c.phone) THEN r.phone = c.phone ELSE r.email = c.email

C8_OnlyConfirmedRowsSelected ==
    [][\A s \in StoreShops :
        ByKeyStep
        => /\ last'.ok
                => \E i \in Idx(rows[s]) : /\ rows[s][i].id = last'.id
                                           /\ rows[s][i].status = "confirmed"
                                           /\ Carries(rows[s][i], last')
           /\ (~\E i \in Idx(rows[s]) : /\ rows[s][i].status = "confirmed"
                                        /\ Carries(rows[s][i], last'))
                => (~last'.ok /\ rows'[s] = rows[s])
           /\ \A i \in Idx(rows[s]) :
                rows[s][i].status = "cancelled" => rows'[s][i] = rows[s][i]]_vars

C8_Witness ==
    \E s \in StoreShops :
        /\ last.op = "cancel_enhanced" /\ ~HasId(last.key) /\ HasStr(last.phone)
        /\ ~last.ok
        /\ \E i \in Idx(rows[s]) : /\ rows[s][i].phone = last.phone
                                   /\ rows[s][i].status = "cancelled"
        /\ \E i \in Idx(rows[s]) : /\ rows[s][i].phone # last.phone
                                   /\ rows[s][i].status = "confirmed"

\* C9: cancel_reservation_enhanced uses one key, the first supplied of id,
\* phone, email: the call succeeds iff a confirmed row carries that key, the
\* row it cancels carries that key, and with no key it fails.
UsedKeyMatches(r, c) ==
    IF HasId(c.key) THEN r.id = c.key
    ELSE IF HasStr(c.phone) THEN r.phone = c.phone
    ELSE IF HasStr(c.email) THEN r.email = c.email
    ELSE FALSE

C9_KeyPriority ==
    [][\A s \in StoreShops :
        last'.op = "cancel_enhanced"
        => /\ last'.ok <=> \E i \in Idx(rows[s]) : /\ rows[s][i].status = "confirmed"
                                                   /\ UsedKeyMatches(rows[s][i], last')
           /\ last'.ok => \E i \in Idx(rows[s]) : /\ UsedKeyMatches(rows[s][i], last')
                                                  /\ OnlyFlips(s, i)
           /\ ~last'.ok => rows'[s] = rows[s]]_vars

C9_Witness ==
    \E s \in StoreShops :
        /\ last.op = "cancel_enhanced" /\ ~last.ok
        /\ HasId(last.key) /\ HasStr(last.phone)
        /\ \E i \in Idx(rows[s]) : /\ rows[s][i].phone = last.phone
                                   /\ rows[s][i].status = "confirmed"

\* C11: a turn of a session in awaiting_confirmation whose message holds no
\* affirmative word ends with the state None, empty reservation_data and no
\* pending reservation, with no row of any shop added or changed; the turn
\* after it accumulates exactly the fields its own message supplies.
Cleared(s) ==
    /\ s.reservation_state = None
    /\ s.reservation_data = NoData
    /\ s.pending_reservation = NoPending

DraftStep(m) == handle_shop_request(DraftThread, DraftSession, DialogueShop, m)

C11_AbandonClearsDraft ==
    [][/\ sess[DraftSession].reservation_state = "awaiting_confirmation"
          => \A m \in Messages :
                (~InAffirmativeWords(m.word) /\ DraftStep(m))
                => /\ pc'[DraftThread] = Idle
                   /\ reply'[DraftSession].kind \in
                        {"abandoned", "ongoing_cancelled", "cancel_stopped", "emergency"}
                   /\ Cleared(sess'[DraftSession])
                   /\ rows' = rows
       /\ reply[DraftSession].kind \in {"abandoned", "ongoing_cancelled"}
          => \A m \in Messages :
                (~m.cancel /\ DraftStep(m))
                => sess'[DraftSession].reservation_data = m.ext]_vars

C11_Witness ==
    /\ reply[DraftSession].kind = "abandoned"
    /\ ~InTurn(DraftSession)
    /\ Cleared(sess[DraftSession])
    /\ \E i \in Idx(rows[DialogueShop]) : rows[DialogueShop][i].status = "confirmed"

\* C12: the calls for shop A leave every row of shop B as it is; the
\* availability they report counts the rows of A only, a save adds its row to
\* A, and a cancellation or lookup whose key is carried by no confirmed row of
\* A fails and changes nothing, also when rows of B carry the key.
OtherShop == "B"

C12_TenantIsolation ==
    [][\A s \in StoreShops :
        /\ rows'[OtherShop] = rows[OtherShop]
        /\ (last'.op = "check" /\ HasDT(last'.date) /\ HasDT(last'.time))
              => (last'.ok <=> Booked(rows[s], last'.date, last'.time) < Cap(s))
        /\ (last'.op = "save" /\ last'.ok)
              => (Len(rows'[s]) = Len(rows[s]) + 1 /\ rows'[s][Len(rows'[s])].id = last'.id)
        /\ (/\ IsCancelStep \/ last'.op \in {"find_phone", "find_email"}
            /\ ~\E i \in Idx(rows[s]) : /\ rows[s][i].status = "confirmed"
                                        /\ UsedKeyMatches(rows[s][i], last'))
              => (~last'.ok /\ rows' = rows)]_vars

C12_Witness ==
    \E s \in StoreShops :
        /\ last.op = "cancel_enhanced" /\ ~last.ok
        /\ \A j \in Idx(rows[OtherShop]) :
              /\ rows[OtherShop][j].status = "confirmed"
              /\ UsedKeyMatches(rows[OtherShop][j], last)
        /\ Booked(rows[OtherShop], 1, 1) = Cap(OtherShop)
        /\ \E i \in Idx(rows[s]) : rows[s][i].status = "confirmed"

\* C13: a step adds at most one row, only in a successful save, with status
\* confirmed and an id no row had; every row that was there stays at its
\* place and is unchanged or, in a cancellation, flipped from confirmed to
\* cancelled; a cancelled row stays cancelled and no row is removed.
RowIds(rs) == {rs[i].id : i \in Idx(rs)}

C13_ReservationLifecycle ==
    [][\A s \in StoreShops :
        /\ Len(rows'[s]) \in {Len(rows[s]), Len(rows[s]) + 1}
        /\ RowIds(rows[s]) \subseteq RowIds(rows'[s])
        /\ \A i \in Idx(rows[s]) :
              \/ rows'[s][i] = rows[s][i]
              \/ /\ IsCancelStep /\ last'.ok
                 /\ rows[s][i].status = "confirmed"
                 /\ rows'[s][i] = [rows[s][i] EXCEPT !.status = "cancelled"]
        /\ Len(rows'[s]) = Len(rows[s]) + 1
              => /\ last'.op = "save" /\ last'.ok
                 /\ rows'[s][Len(rows'[s])].status = "confirmed"
                 /\ rows'[s][Len(rows'[s])].id \notin RowIds(rows[s])]_vars

C13_Witness ==
    \E s \in StoreShops : \E i, j \in Idx(rows[s]) :
        /\ i < j
        /\ rows[s][i].status = "cancelled"
        /\ rows[s][j].status = "confirmed"
        /\ rows[s][j].date = rows[s][i].date /\ rows[s][j].time = rows[s][i].time
        /\ last.op = "cancel" /\ ~last.ok /\ last.key = rows[s][i].id

\* C14: when two threads hold messages for the same session, a thread starts
\* its turn only when no turn of that session is in progress, and while a
\* turn is in progress no step of another thread changes the session, its
\* durable row, its conversation cache or its reply: the turns run one after
\* the other.
C14_SameSessionTurnsSerialized ==
    [][\A t \in Threads :
        /\ (pc[t].at \in {"llm", "save"} /\ pc'[t] = pc[t])
              => /\ sess'[pc[t].sid] = sess[pc[t].sid]
                 /\ db'[pc[t].sid] = db[pc[t].sid]
                 /\ cache'[pc[t].sid] = cache[pc[t].sid]
                 /\ reply'[pc[t].sid] = reply[pc[t].sid]
        /\ (pc[t].at = "wait" /\ pc'[t] # pc[t])
              => ~InTurn(pc[t].sid)]_vars

C14_Witness ==
    \E t, u \in Threads :
        /\ pc[t].at = "save"
        /\ pc[u].at = "wait"
        /\ pc[u].sid = pc[t].sid
        /\ sess[pc[t].sid].pending_reservation.set
        /\ reply[pc[t].sid].kind = "summary"

\* C15 (the claim as stated): while a turn of one session is in progress -
\* its thread waits for the language model or is about to save - the thread of
\* every other session can start a turn.
C15_SessionsRunInParallel ==
    \A t \in Threads :
        pc[t].at \in {"llm", "save"}
        => \A sid \in DialogueSessions \ {pc[t].sid} :
              \E m \in DialogueMessages :
                 ENABLED handle_shop_request(ThreadOf(sid), sid, DialogueShop, m)

\* C16 (the claim as stated): get_session for a session that is not cached
\* returns without raising, with the content of the durable row when the row
\* exists and can be read, and with a fresh session (state None, no
\* reservation data, no pending reservation) when there is no row or when the
\* load or the creation of the row fails.
Fresh(s, shop) ==
    /\ s # NoSession
    /\ s.shop_id = shop
    /\ Cleared(s)

C16_GetSessionNeverFails ==
    [][\A sid \in SessionIds :
        (last'.op = "get_session" /\ last'.sid = sid /\ sess[sid] = NoSession)
        => /\ last'.ok
           /\ IF db[sid] # NoRow /\ last'.fault # "load"
              THEN /\ sess'[sid].shop_id = db[sid].shop_id
                   /\ sess'[sid].reservation_state = db[sid].reservation_state
                   /\ sess'[sid].reservation_data = db[sid].reservation_data
                   /\ sess'[sid].pending_reservation = db[sid].pending_reservation
              ELSE Fresh(sess'[sid], last'.shop)]_vars

\* the turn of message m raises an exception that reaches the except clause of
\* handle_shop_request: the session cannot be created, or the shop context
\* cannot be loaded outside the cancellation flow
Raises(m) ==
    \/ m.fault = "create" /\ sess[DraftSession] = NoSession /\ db[DraftSession] = NoRow
    \/ m.fault = "context" /\ ~m.cancel

\* C19 (the claim as stated): a turn in which an exception is raised returns
\* the emergency reply with success false, and after it the conversation cache
\* of the session ends with the user's message followed by that reply.
C19_ExceptionGivesSafeReply ==
    [][\A m \in Messages :
        (Raises(m) /\ DraftStep(m))
        => /\ pc'[DraftThread] = Idle
           /\ reply'[DraftSession].kind = "emergency"
           /\ ~success(reply'[DraftSession].kind)
           /\ Len(cache'[DraftSession]) >= 2
           /\ cache'[DraftSession][Len(cache'[DraftSession]) - 1] = "user"
           /\ cache'[DraftSession][Len(cache'[DraftSession])] = "assistant"]_vars

\* C20 (the claim as stated): after a turn in which an exception is raised the
\* reservation state, the reservation data and the pending reservation of the
\* session are those it had before the turn.
C20_FailedTurnRollsBack ==
    [][\A m \in Messages :
        (Raises(m) /\ DraftStep(m))
        => /\ sess'[DraftSession].reservation_state = sess[DraftSession].reservation_state
           /\ sess'[DraftSession].reservation_data = sess[DraftSession].reservation_data
           /\ sess'[DraftSession].pending_reservation
                 = sess[DraftSession].pending_reservation]_vars

\* the rules of a validation in their order, each with the reason given when
\* it is the first to fail; what differs between the two statements of C17 is
\* what the two rules about the shop's hours ask for
RuleParses(c) == c.parses
RuleNotPast(c) == c.ahead >= 0
RuleMinAdvance(c) == c.ahead >= c.min_hours
RuleMaxAdvance(c) == c.ahead <= c.max_days
InWindow(c) ==
    LET h == c.hours
    IN  IF h.close < h.open THEN c.tod >= h.open \/ c.tod <= h.close
        ELSE c.tod >= h.open /\ c.tod <= h.close

Rules(c, open, inside) ==
    << <<RuleParses(c), "invalid_format">>, <<RuleNotPast(c), "past">>,
       <<RuleMinAdvance(c), "min_advance">>, <<RuleMaxAdvance(c), "max_advance">>,
       <<open, "closed">>, <<inside, "outside_hours">> >>

FirstFailing(rules) ==
    LET failing == {i \in 1..Len(rules) : ~rules[i][1]}
    IN  IF failing = {} THEN Verdict(TRUE, "valid")
        ELSE Verdict(FALSE, rules[CHOOSE i \in failing : \A j \in failing : i <= j][2])

\* C17 (the claim as stated): a moment is accepted iff it parses, is not
\* before now, is at least min_hours_from_now and at most max_days_in_future
\* ahead, falls on a weekday whose hours are present and not 'closed', and
\* lies inside that day's open-close window; a rejection gives the reason of
\* the first failing rule.
C17_AcceptsIffEveryRuleHolds ==
    last.op = "validate_date_time" =>
        Verdict(last.ok, last.reason) =
            FirstFailing(Rules(last,
                last.hours.kind \in {"unparsed", "window"},
                last.hours.kind = "window" /\ InWindow(last)))

\* C17: the rules are checked in the stated order and the reason is that of
\* the first failing rule, where the two rules about the shop's hours hold
\* as well when no hours are supplied, and the window rule holds as well when
\* the day's hours string cannot be read as an open-close pair.
C17_ValidateFirstFailingRule ==
    last.op = "validate_date_time" =>
        Verdict(last.ok, last.reason) =
            FirstFailing(Rules(last,
                last.hours = NoHours \/ last.hours.kind \in {"unparsed", "window"},
                last.hours.kind = "window" => InWindow(last)))

\* a moment 3 hours ahead inside the open hours has been accepted with a
\* minimum advance of 2 hours
C17_Witness ==
    /\ last.op = "validate_date_time"
    /\ last.ahead = 3 /\ last.min_hours = 2 /\ last.max_days = 3
    /\ last.hours = Window(1, 2) /\ last.tod = 1
    /\ last.ok

\* what a message holds, read off its words
WordAt(msg, i) == IF i <= Len(msg) THEN msg[i] ELSE "end"

HasSolo(msg) ==
    \E i \in 1..Len(msg) :
        \/ msg[i] = "alone"
        \/ msg[i] = "one" /\ WordAt(msg, i + 1) # "more"
        \/ msg[i] = "for" /\ WordAt(msg, i + 1) = "me" /\ WordAt(msg, i + 2) # "and"

NumbersByContext(msg) ==
    {i \in 1..Len(msg) :
        /\ msg[i] = "4"
        /\ \E j \in 1..Len(msg) :
              \/ msg[j] = "4" /\ WordAt(msg, j + 1) = "for"
              \/ msg[j] = "for" /\ WordAt(msg, j + 1) = "4"}

RelationshipWords(msg) == {i \in 1..Len(msg) : msg[i] \in {"brother", "family"}}

HasGroup(msg) == \E i \in 1..Len(msg) : msg[i] = "us"

\* C18: the party size is that of the first matching rule in the order solo
\* vocabulary, explicit number next to a party-context word, relationship
\* table, group words, absent: solo vocabulary gives 1 whatever else the
\* message holds; otherwise a number in range next to a context word gives
\* that number; otherwise a single relationship mention gives its base value
\* (brother 2, family 3); otherwise group words give 2; otherwise there is
\* no party size.
C18_PartySizeFirstMatchingRule ==
    last.op = "_extract_party_size" =>
        LET msg == last.msg
            size == last.party_size
        IN  /\ HasSolo(msg) => size = 1
            /\ ~HasSolo(msg) /\ NumbersByContext(msg) # {} => size = 4
            /\ (/\ ~HasSolo(msg) /\ NumbersByContext(msg) = {}
                /\ Cardinality(RelationshipWords(msg)) = 1)
               => \A i \in RelationshipWords(msg) :
                      size = IF msg[i] = "brother" THEN 2 ELSE 3
            /\ (/\ ~HasSolo(msg) /\ NumbersByContext(msg) = {}
                /\ RelationshipWords(msg) = {} /\ HasGroup(msg))
               => size = 2
            /\ (/\ ~HasSolo(msg) /\ NumbersByContext(msg) = {}
                /\ RelationshipWords(msg) = {} /\ ~HasGroup(msg))
               => size = NoPartySize

\* a message with solo vocabulary and a relationship word has been given
\* party size 1
C18_Witness ==
    /\ last.op = "_extract_party_size"
    /\ HasSolo(last.msg)
    /\ RelationshipWords(last.msg) # {}
    /\ last.party_size = 1

\* C21 (the claim as stated): a turn whose message holds no cancellation word
\* and a confirmation word, taken in state None or collecting_info - the first
\* turn of a session included - with date, time and party size all present
\* after the merge, stores the merged data with the contact fields of the
\* session as the pending reservation, ends in awaiting_confirmation and
\* returns the summary.
C21_SummaryTransition ==
    [][\A m \in Messages :
        LET s0 == get_session(DraftSession, DialogueShop, sess[DraftSession],
                              db[DraftSession], m.fault).session
            merged == Update(s0.reservation_data, m.ext)
        IN  (/\ ~m.cancel /\ m.fault = "none"
             /\ InConfirmationWords(m.word)
             /\ s0.reservation_state \in {None, "collecting_info"}
             /\ required_fields(merged)
             /\ DraftStep(m))
            => /\ pc'[DraftThread] = Idle
               /\ reply'[DraftSession].kind = "summary"
               /\ sess'[DraftSession].reservation_state = "awaiting_confirmation"
               /\ sess'[DraftSession].pending_reservation
                     = Pending(TRUE, merged, s0.user_phone, s0.user_email)]_vars

\* C22 (the claim as stated): a confirming turn saves a reservation only when
\* the pending date and time lie inside the shop's operating hours and inside
\* the booking window (a valid moment, not in the past, at least the minimum
\* and at most the maximum ahead, for some setting of the two limits).
C22_SavedSlotWasValidated ==
    [][\A t \in Threads :
        (confirm_save(t) /\ reply'[pc[t].sid].kind = "confirmed")
        => LET pending == sess[pc[t].sid].pending_reservation
               hours   == operating_hours[pc[t].shop]
           IN  \E min_hours \in MinHours, max_days \in MaxDays :
                  validate_date_time(TRUE,
                      hours_until(pending.date, pending.time), pending.time,
                      min_hours, max_days, Window(hours.open, hours.close)).ok]_vars

\* C23 (the claim as stated): a confirming turn rejected because the slot is
\* at capacity or because the time is outside the shop's hours ends with the
\* reservation state cleared, inserts no row, and does not go on to the save.
C23_RejectionClearsDraft ==
    [][\A m \in Messages :
        (/\ sess[DraftSession] # NoSession
         /\ sess[DraftSession].reservation_state = "awaiting_confirmation"
         /\ DraftStep(m)
         /\ reply'[DraftSession].kind \in {"unavailable", "outside_hours"})
        => /\ pc'[DraftThread] = Idle
           /\ Cleared(sess'[DraftSession])
           /\ rows' = rows]_vars

\* the rows of a table that carry a reservation id
RowsWithId(rs, id) == {i \in Idx(rs) : rs[i].id = id}

\* C24: the save of a confirming turn ends the turn with the reservation state
\* of the session cleared. When the save succeeds the reply carries an id
\* that exactly one row of the shop's table has; that row is confirmed and has
\* the date, time and party size of the pending snapshot. When the save fails
\* the reply is the apology with success false and the table is unchanged.
C24_SaveOutcome ==
    [][\A t \in Threads :
        confirm_save(t)
        => LET sid  == pc[t].sid
               snap == sess[sid].pending_reservation
               rs   == rows'[get_reservation_db_path(pc[t].shop)]
               r    == reply'[sid]
           IN  /\ pc'[t] = Idle
               /\ Cleared(sess'[sid])
               /\ r.kind \in {"confirmed", "save_error"}
               /\ r.kind = "confirmed"
                  => /\ success(r.kind)
                     /\ HasId(r.id)
                     /\ Cardinality(RowsWithId(rs, r.id)) = 1
                     /\ \A i \in RowsWithId(rs, r.id) :
                           /\ rs[i].status = "confirmed"
                           /\ rs[i].date = snap.date
                           /\ rs[i].time = snap.time
                           /\ rs[i].party = snap.party
                     /\ Len(rs) = Len(rows[get_reservation_db_path(pc[t].shop)]) + 1
               /\ r.kind = "save_error"
                  => /\ ~success(r.kind)
                     /\ rows' = rows]_vars

\* a reservation for a party of two has been confirmed, its row carrying the
\* id of the reply
C24_Witness ==
    \E sid \in BookingSessions :
        /\ reply[sid].kind = "confirmed"
        /\ Cleared(sess[sid])
        /\ \E i \in Idx(rows[DialogueShop]) :
              /\ rows[DialogueShop][i].id = reply[sid].id
              /\ rows[DialogueShop][i].party = 2

\* the save of a session without a phone has failed
C24_SaveFailed ==
    \E sid \in BookingSessions : reply[sid].kind = "save_error" /\ Cleared(sess[sid])

\* the date, time and party size of a pending reservation
Snapshot(pending) == <<pending.date, pending.time, pending.party>>

CancellationReplies ==
    {"ongoing_cancelled", "cancel_stopped", "need_identifier", "cancel_ok",
     "cancel_not_found", "cancel_error"}

\* C26: a turn whose message holds a cancellation word ends in the cancellation
\* flow whatever the state of the session and whatever else the message holds
\* (an affirmative word, a reservation id, a phone, an email); when the
\* session has a reservation state, the turn clears the state, the accumulated
\* data and the pending reservation and leaves every table as it is.
C26_CancellationFirst ==
    [][\A m \in OngoingMessages :
        LET s0 == get_session(DraftSession, DialogueShop, sess[DraftSession],
                              db[DraftSession], m.fault).session
        IN  (m.cancel /\ DraftStep(m))
            => /\ pc'[DraftThread] = Idle
               /\ reply'[DraftSession].kind \in CancellationReplies
               /\ s0.reservation_state # None
                  => /\ reply'[DraftSession].kind \in
                           {"ongoing_cancelled", "cancel_stopped"}
                     /\ Cleared(sess'[DraftSession])
                     /\ rows' = rows]_vars

\* an ongoing draft has been cancelled while the table holds a confirmed
\* reservation of the session, which stays confirmed
C26_Witness ==
    /\ reply[DraftSession].kind = "ongoing_cancelled"
    /\ Cleared(sess[DraftSession])
    /\ \E i \in Idx(rows[DialogueShop]) :
          /\ rows[DialogueShop][i].status = "confirmed"
          /\ rows[DialogueShop][i].phone = user_phone[DraftSession]

\* the identifier a cancellation resolves to, in the order of the claim: what
\* the text holds, then what the session knows
Identifier(kind, value) == [kind |-> kind, value |-> value]

Resolved(s, m) ==
    IF HasId(m.rid) THEN Identifier("id", m.rid)
    ELSE IF HasStr(m.phone) THEN Identifier("phone", m.phone)
    ELSE IF HasStr(m.email) THEN Identifier("email", m.email)
    ELSE IF HasStr(s.user_phone) THEN Identifier("phone", s.user_phone)
    ELSE IF HasStr(s.user_email) THEN Identifier("email", s.user_email)
    ELSE Identifier("none", None)

\* the confirmed rows an identifier names
Named(rs, key) ==
    {i \in Idx(rs) :
        /\ rs[i].status = "confirmed"
        /\ \/ key.kind = "id" /\ rs[i].id = key.value
           \/ key.kind = "phone" /\ rs[i].phone = key.value
           \/ key.kind = "email" /\ rs[i].email = key.value}

\* the rows that differ between two tables of the same length
Changed(rs, after) == {i \in Idx(rs) : after[i] # rs[i]}

\* C27: a cancellation message to a session without reservation state uses
\* the reservation id of the text, else the phone of the text, else the email
\* of the text, else the phone the session knows, else the email the session
\* knows. With none of them the reply asks for an identifier and no row
\* changes; with no confirmed row of that identifier the reply says so and no
\* row changes; otherwise one confirmed row of that identifier, the one the
\* reply names, becomes cancelled, and no other row changes.
C27_CancellationIdentifier ==
    [][\A sid \in CancelSessions : \A m \in CancelMessages :
        LET s0    == get_session(sid, DialogueShop, sess[sid], db[sid], m.fault).session
            key   == Resolved(s0, m)
            rs    == rows[DialogueShop]
            after == rows'[DialogueShop]
            r     == reply'[sid]
        IN  (/\ s0.reservation_state = None
             /\ handle_shop_request(ThreadOf(sid), sid, DialogueShop, m))
            => /\ Len(after) = Len(rs)
               /\ Cardinality(Changed(rs, after)) <= 1
               /\ key.kind = "none" => r.kind = "need_identifier" /\ after = rs
               /\ (key.kind # "none" /\ Named(rs, key) = {})
                  => r.kind = "cancel_not_found" /\ after = rs
               /\ (key.kind # "none" /\ Named(rs, key) # {})
                  => /\ r.kind = "cancel_ok"
                     /\ \E i \in Named(rs, key) :
                           /\ rs[i].id = r.id
                           /\ Changed(rs, after) = {i}
                           /\ after[i] = [rs[i] EXCEPT !.status = "cancelled"]]_vars

\* the session that knows only an email has cancelled a reservation of that
\* email whose phone is another session's, and the other reservation of the
\* table is still confirmed
C27_Witness ==
    /\ reply["s4"].kind = "cancel_ok"
    /\ \E i \in Idx(rows[DialogueShop]) :
          /\ rows[DialogueShop][i].id = reply["s4"].id
          /\ rows[DialogueShop][i].status = "cancelled"
          /\ rows[DialogueShop][i].email = user_email["s4"]
    /\ \E j \in Idx(rows[DialogueShop]) : rows[DialogueShop][j].status = "confirmed"

\* one field after a merge: the extracted value when the message holds one,
\* else the value before
Merged(before, extracted) == IF extracted # NoDT THEN extracted ELSE before

\* C28: after the first step of a turn whose message is no cancellation, taken
\* outside awaiting_confirmation, each of date, time and party size in the
\* accumulated data of the session is the value extracted from the message
\* when there is one and the value before the turn otherwise; the answer of
\* the language model that ends the turn leaves the accumulated data as it is.
C28_MergeLastSeenWins ==
    [][\A sid \in BookingSessions :
        /\ \A m \in BookingMessages :
              LET s0 == get_session(sid, DialogueShop, sess[sid], db[sid],
                                    m.fault).session
              IN  (/\ ~m.cancel
                   /\ s0.reservation_state # "awaiting_confirmation"
                   /\ handle_shop_request(ThreadOf(sid), sid, DialogueShop, m))
                  => LET before == s0.reservation_data
                         data   == sess'[sid].reservation_data
                     IN  /\ data.date = Merged(before.date, m.ext.date)
                         /\ data.time = Merged(before.time, m.ext.time)
                         /\ data.party = Merged(before.party, m.ext.party)
        /\ (pc[ThreadOf(sid)].at = "llm" /\ generate_ai_response(ThreadOf(sid)))
           => sess'[sid].reservation_data = sess[sid].reservation_data]_vars

\* a session holds a date and a time of one message and the party size of a
\* later one, which replaced the party size sent with the date
C28_Witness ==
    \E sid \in BookingSessions :
        /\ sess[sid].reservation_state = "collecting_info"
        /\ sess[sid].reservation_data.date # NoDT
        /\ sess[sid].reservation_data.time # NoDT
        /\ sess[sid].reservation_data.party = 2
        /\ pc[ThreadOf(sid)] = Idle

\* C29: a turn whose message holds a cancellation word and in whose handling
\* something is raised (the shop context cannot be loaded while an ongoing
\* draft is cancelled, the identifiers cannot be read off the text, the
\* reservation database fails) ends with a reply of the cancellation flow, never
\* with the emergency reply of the turn, and changes no table.
C29_CancellationNeverRaises ==
    [][\A m \in OngoingMessages :
        LET s0 == get_session(DraftSession, DialogueShop, sess[DraftSession],
                              db[DraftSession], m.fault).session
        IN  (m.cancel /\ m.fault # "none" /\ DraftStep(m))
            => /\ pc'[DraftThread] = Idle
               /\ reply'[DraftSession].kind \in CancellationReplies
               /\ (s0.reservation_state # None /\ m.fault = "context")
                  => /\ reply'[DraftSession].kind = "cancel_stopped"
                     /\ success(reply'[DraftSession].kind)
                     /\ rows' = rows
               /\ (s0.reservation_state = None /\ m.fault = "extract")
                  => reply'[DraftSession].kind = "cancel_error" /\ rows' = rows
               /\ (s0.reservation_state = None /\ m.fault = "storage")
                  => /\ reply'[DraftSession].kind \in
                           {"need_identifier", "cancel_not_found"}
                     /\ rows' = rows]_vars

\* an ongoing draft was being cancelled when the shop context could not be
\* loaded: the reply is the one of the handler, the draft is cleared
C29_Witness ==
    /\ reply[DraftSession].kind = "cancel_stopped"
    /\ Cleared(sess[DraftSession])
    /\ pc[DraftThread] = Idle

\* the calls that change a session
Mutators ==
    {"set_reservation_state", "clear_reservation_state", "set_pending_reservation",
     "update_conversation"}

\* a session whose durable row is there and takes every write
Durable(s) == Pair(s, CreatedRow(s.shop_id))

\* C30: a mutator called on a cached session returns normally whether its
\* durable write succeeds, raises, or finds no row, and the cached session
\* after the call is the one the call gives when the row is there and the
\* write succeeds: the state and the merged data for set_reservation_state,
\* the given snapshot for set_pending_reservation, the cleared session for
\* clear_reservation_state, the session as it was for update_conversation.
C30_CacheUpdatedWhateverTheRow ==
    [][\A sid \in SessionIds :
        (/\ last'.op \in Mutators /\ last'.sid = sid
         /\ sess[sid] # NoSession
         /\ <<sess, db, last>> # <<sess', db', last'>>)
        => LET s == sess[sid]
               c == sess'[sid]
           IN  /\ last'.ok
               /\ last'.op = "set_reservation_state"
                  => \E state \in {"collecting_info", "awaiting_confirmation"},
                        x \in Extracts :
                         /\ c = set_reservation_state(Durable(s), state, x).c
                         /\ c.reservation_state = state
                         /\ c.reservation_data = Update(s.reservation_data, x)
               /\ last'.op = "set_pending_reservation"
                  => /\ c.pending_reservation.set
                     /\ c = set_pending_reservation(Durable(s), c.pending_reservation).c
               /\ last'.op = "clear_reservation_state"
                  => Cleared(c) /\ c = clear_reservation_state(Durable(s)).c
               /\ last'.op = "update_conversation" => c = s]_vars

\* a pending reservation was set while the durable write raised: the cache
\* has it, the row has not
C30_Witness ==
    \E sid \in SessionIds :
        /\ last.op = "set_pending_reservation" /\ last.fault = "write" /\ last.ok
        /\ sess[sid].pending_reservation.set
        /\ db[sid] # NoRow
        /\ ~db[sid].pending_reservation.set

\* a session was cleared in the cache while it has no durable row
C30_NoRow ==
    \E sid \in SessionIds :
        /\ last.op = "clear_reservation_state"
        /\ sess[sid] # NoSession /\ Cleared(sess[sid])
        /\ db[sid] = NoRow

\* C31: the sweep that opens get_session removes from the cache the sessions
\* whose last_activity lies more than the timeout before the clock, and no
\* others; a session that is read inside the timeout stays as it is (it is
\* not loaded again), one read after the timeout comes back from its row (or
\* as a new session when the row cannot be read);
\* nothing but the sweep removes a session, and no step removes a row.
C31_SweepEvictsExactlyExpired ==
    [][\A sid \in SweepIds :
        LET cached == last.last_activity[sid] # NoTime
            old    == last.now - last.last_activity[sid] > session_timeout
        IN  /\ db[sid] # NoRow => db'[sid] = db[sid]
            /\ (sess[sid] # NoSession /\ sess'[sid] = NoSession)
               => last'.op = "get_session" /\ old
            /\ (last'.op = "get_session" /\ last'.now = last.now /\ cached)
               => /\ last'.sid # sid
                     => /\ old => sess'[sid] = NoSession
                        /\ ~old => sess'[sid] = sess[sid]
                  /\ (last'.sid = sid /\ ~old)
                     => /\ sess'[sid] = sess[sid]
                        /\ last'.last_activity[sid] = last.now
                  /\ (last'.sid = sid /\ old /\ db[sid] # NoRow)
                     => /\ sess'[sid] \in {Hinted(sid, db[sid]),
                                          NewSession(sid, DialogueShop)}
                        /\ last'.last_activity[sid] \in {last.stored[sid], last.now}]_vars

\* one session has been swept out while the other, read within the timeout,
\* is still cached; the row of the first is still there
C31_Witness ==
    /\ last.op = "get_session" /\ last.sid = "s2"
    /\ sess["s1"] = NoSession /\ db["s1"] # NoRow
    /\ sess["s2"] # NoSession
    /\ last.last_activity["s2"] = last.now
    /\ last.stored["s2"] < last.now

ContactFields == {"user_phone", "user_email"}

Hint(h, field) == IF field = "user_phone" THEN user_phone[h] ELSE user_email[h]

StoredContact(field) ==
    IF sess[ContactKey] # NoSession THEN sess[ContactKey][field]
    ELSE db[ContactKey][field]

\* C32: a contact field that holds a non-empty value (in the cached session,
\* or in the row when the session is not cached) keeps that value through a
\* message whose hint for the field is empty or missing, and a non-empty
\* contact column of the row is never replaced by an empty value.
C32_ContactNeverEmptied ==
    [][\A field \in ContactFields :
        /\ (/\ last'.op = "get_session"
            /\ sess'[ContactKey] # NoSession
            /\ HasStr(StoredContact(field))
            /\ ~HasStr(Hint(last'.hints, field)))
           => sess'[ContactKey][field] = StoredContact(field)
        /\ HasStr(db[ContactKey][field]) => HasStr(db'[ContactKey][field])]_vars

\* the same with the row readable at every message (no objects.get error)
C32_WhenTheRowLoads ==
    [][\A field \in ContactFields :
        /\ (/\ last'.op = "get_session" /\ last'.fault # "load"
            /\ sess'[ContactKey] # NoSession
            /\ HasStr(StoredContact(field))
            /\ ~HasStr(Hint(last'.hints, field)))
           => sess'[ContactKey][field] = StoredContact(field)
        /\ (HasStr(db[ContactKey][field]) /\ HasStr(sess[ContactKey][field]))
           => HasStr(db'[ContactKey][field])]_vars

\* the newest k entries of a list, computed from its end
Newest(c, k) ==
    IF Len(c) <= k THEN c ELSE SubSeq(c, Len(c) - k + 1, Len(c))

\* C33: the conversation cache never holds more than its capacity; an append
\* leaves the newest entries of the old cache followed by the new message, so
\* only the oldest entry is dropped when the cache was full; a clear keeps
\* the newest entry of a cache of two or more and empties a shorter one, a
\* reset does the same and appends the greeting; the entries always stand in
\* their order of arrival.
C33_CacheBounded ==
    [][LET old == cache[CacheKey]
           new == cache'[CacheKey]
       IN  /\ Len(new) <= MaxCache
           /\ \A i, j \in 1..Len(new) : i < j => new[i].content < new[j].content
           /\ last'.op = "add"
              => /\ Len(new) = (IF Len(old) < MaxCache THEN Len(old) + 1 ELSE MaxCache)
                 /\ new[Len(new)].content = last.n
                 /\ SubSeq(new, 1, Len(new) - 1) = Newest(old, MaxCache - 1)
           /\ last'.op = "clear"
              => new = (IF Len(old) > 1 THEN Newest(old, 1) ELSE <<>>)
           /\ last'.op = "reset"
              => /\ new[Len(new)] = Entry("assistant", last.n)
                 /\ SubSeq(new, 1, Len(new) - 1)
                      = (IF Len(old) > 1 THEN Newest(old, 1) ELSE <<>>)]_vars

C33_Witness ==
    /\ last.op = "add"
    /\ Len(last.before) = MaxCache
    /\ Len(cache[CacheKey]) = MaxCache
    /\ cache[CacheKey][1] = last.before[2]
    /\ cache[CacheKey][MaxCache].content = last.n - 1

\* the completion call did not give a usable text
Failed(client, completion) ==
    \/ client = None
    \/ completion.source \in {"raises", "timeout"}
    \/ completion.len < min_response_length

\* C34: the step of a turn that asks the text-completion collaborator ends
\* the turn with a successful chat reply whose text is not empty, whatever
\* the collaborator did; when the client is missing, the call raises or times
\* out, or the text is empty or too short, the text is the fallback; and the
\* dialogue state, accumulated data and pending reservation of the session
\* are what they were before the step, as when the collaborator answers.
C34_FallbackReply ==
    [][\A client \in Clients, completion \in Completions :
        LlmAnswerWith(client, completion)
        => LET sid == pc[DraftThread].sid
           IN  /\ pc'[DraftThread] = Idle
               /\ reply'[sid].kind = "chat" /\ success(reply'[sid].kind)
               /\ last'.text.len > 0
               /\ Failed(client, completion)
                  => last'.text = _generate_context_aware_fallback
               /\ ~Failed(client, completion) => last'.text = completion
               /\ sess'[sid].reservation_state = sess[sid].reservation_state
               /\ sess'[sid].reservation_data = sess[sid].reservation_data
               /\ sess'[sid].pending_reservation = sess[sid].pending_reservation]_vars

C34_Witness ==
    /\ pc[DraftThread] = Idle
    /\ reply[DraftSession].kind = "chat"
    /\ last.text = _generate_context_aware_fallback
    /\ sess[DraftSession].reservation_state = "collecting_info"
    /\ sess[DraftSession].reservation_data # NoData

\* the rules before the hours rule let the input through
ReachesHoursCheck ==
    /\ last.op = "validate_date_time"
    /\ last.hours.kind = "window"
    /\ last.reason \notin {"invalid_format", "past", "min_advance", "max_advance"}

\* C35: for a weekday whose hours are an open-close window, a moment that
\* passed the earlier rules is accepted iff its time lies in the window: with
\* close not before open iff open <= t <= close; with close before open
\* (closing after midnight) iff t >= open or t <= close, so that every time
\* strictly between close and open is rejected as outside the hours.
C35_HoursWindow ==
    ReachesHoursCheck
    => LET t == last.tod
           open == last.hours.open
           close == last.hours.close
       IN  /\ close >= open => (last.ok <=> (open <= t /\ t <= close))
           /\ close < open => (last.ok <=> (t >= open \/ t <= close))
           /\ (close < open /\ close < t /\ t < open)
              => ~last.ok /\ last.reason = "outside_hours"
           /\ ~last.ok => last.reason = "outside_hours"

C35_Witness ==
    /\ ReachesHoursCheck
    /\ last.hours.close < last.hours.open
    /\ last.tod <= last.hours.close
    /\ last.tod < last.hours.open
    /\ last.ok

Generated == last.op = "generate_alternative_slots"

\* what C36 says of every list of alternative slots but the place of the
\* same-day slots in the window
SlotsInOrder ==
    Generated
    => LET s == last.slots
       IN  /\ Len(s) <= 4
           /\ \A i, j \in 1..Len(s) : i < j => s[i] < s[j]
           /\ \A i \in 1..Len(s) :
                /\ s[i] > last.now
                /\ last.week # NoWeek
                /\ last.week[Weekday(DayOf(s[i]))].kind \notin {"missing", "empty", "closed"}
                /\ DayOf(s[i]) \in {0, 1, 2, 3, 7}
                /\ TodOf(s[i]) % 2 = 0
           /\ (\E i \in 1..Len(s) : DayOf(s[i]) > 0)
              => Cardinality({i \in 1..Len(s) : DayOf(s[i]) = 0}) < 3

\* C36: the alternative slots are at most 4 moments, in chronological order
\* without duplicates, each later than the current time and on a weekday
\* whose hours are present and not "closed"; the slots on the day of the base
\* moment are on the hour and inside that weekday's open-close window; the
\* days ahead (1, 2, 3, 7) give slots only when the day of the base moment
\* gave fewer than 3.
C36_AlternativeSlots ==
    /\ SlotsInOrder
    /\ Generated
       => \A i \in 1..Len(last.slots) :
            DayOf(last.slots[i]) = 0
            => /\ last.week[0].kind = "window"
               /\ last.week[0].open <= TodOf(last.slots[i])
               /\ TodOf(last.slots[i]) <= last.week[0].close

\* the same-day slots lie in the window when the shop opens on the hour
C36_OpeningOnTheHour ==
    (Generated /\ last.week # NoWeek /\ last.week[0].open % 2 = 0)
    => \A i \in 1..Len(last.slots) :
            DayOf(last.slots[i]) = 0
            => /\ last.week[0].kind = "window"
               /\ last.week[0].open <= TodOf(last.slots[i])
               /\ TodOf(last.slots[i]) <= last.week[0].close

PolicyReasons == {"closed", "outside_hours", "past", "min_advance", "max_advance"}

PolicyRejection ==
    /\ last.op = "comprehensive_reservation_validation"
    /\ ~last.result.is_valid
    /\ last.result.errors \cap PolicyReasons # {}

\* C37: a draft whose moment is rejected for the operating hours or for the
\* booking window is reported invalid with that reason, and when
\* generate_alternative_slots has a candidate for the moment the result's
\* alternative slots are not empty.
C37_RejectionWithAlternatives ==
    PolicyRejection
    => /\ last.result.errors
            = {validate_date_time(last.parses, Moment(0, last.tod) - last.now,
                   last.tod, last.min_hours, last.max_days,
                   IF last.week = NoWeek THEN NoHours ELSE last.week[0]).reason}
       /\ generate_alternative_slots(last.now, last.week) # <<>>
          => last.result.alternative_slots # <<>>

\* the reason is reported with every rejection; the alternative slots of a
\* rejected draft are always empty
C37_RejectionWithoutAlternatives ==
    PolicyRejection
    => /\ Cardinality(last.result.errors) = 1
       /\ last.result.alternative_slots = <<>>

\* the numbers of a message that stand right before or right after "for"
ContextNumbers(msg) ==
    {NumberOf(msg[i]) : i \in
        {k \in 1..Len(msg) :
            /\ msg[k] \in {"4", "9"}
            /\ \/ k < Len(msg) /\ msg[k + 1] = "for"
               \/ k > 1 /\ msg[k - 1] = "for"}}

Clamped(n) == IF n < 1 THEN 1 ELSE IF n > max_party_size THEN max_party_size ELSE n

\* an extracted party size lies in 1..max_party_size
C38_PartySizeInRange ==
    (last.op = "_extract_party_size" /\ last.party_size # NoPartySize)
    => last.party_size >= 1 /\ last.party_size <= max_party_size

\* C38: without solo vocabulary, a message with a number next to a
\* party-context word gets that number clamped to 1..max_party_size as its
\* party size (max_party_size for a number above it, never an absent field
\* or the value of a later rule); and every extracted party size lies in
\* 1..max_party_size.
C38_ExplicitNumberClamped ==
    /\ C38_PartySizeInRange
    /\ (/\ last.op = "_extract_party_size"
        /\ ~HasSolo(last.msg)
        /\ ContextNumbers(last.msg) # {})
       => last.party_size \in {Clamped(n) : n \in ContextNumbers(last.msg)}

\* a clock text that names a time of the day: 1..12 with a marker, 0..23
\* without one, and a minute below 60
WallClockText(text) ==
    /\ text.minute < 60
    /\ text.marker = "none" => text.hour <= 23
    /\ text.marker # "none" => text.hour >= 1 /\ text.hour <= 12

\* the hour of a clock text with am or pm is converted as C39 says
C39_TwelveHourClock ==
    (last.op = "_extract_date_time" /\ last.text.marker # "none"
     /\ WallClockText(last.text))
    => /\ last.time.minute = last.text.minute
       /\ last.text.marker = "pm" /\ last.text.hour < 12
          => last.time.hour = last.text.hour + 12
       /\ last.text.marker = "pm" /\ last.text.hour = 12 => last.time.hour = 12
       /\ last.text.marker = "am" /\ last.text.hour = 12 => last.time.hour = 0
       /\ last.text.marker = "am" /\ last.text.hour # 12
          => last.time.hour = last.text.hour

\* C39: the extracted time is the 24-hour time of the clock text: pm with an
\* hour below 12 adds 12, 12 pm stays 12, 12 am becomes 0, the other am hours
\* stay, a text without am or pm keeps its hour, the minute stays, and the
\* result is a time of the day (hour 0..23, minute 0..59).
C39_TimeExtraction ==
    /\ C39_TwelveHourClock
    /\ (last.op = "_extract_date_time" /\ WallClockText(last.text))
       => /\ last.text.marker = "none" => last.time.hour = last.text.hour
          /\ last.time.minute = last.text.minute
    /\ last.op = "_extract_date_time"
       => /\ last.time.hour >= 0 /\ last.time.hour <= 23
          /\ last.time.minute >= 0 /\ last.time.minute <= 59

\* the session stays with the shop it was created for
C40_SessionKeepsItsShop ==
    sess[DraftSession] # NoSession => sess[DraftSession].shop_id = HomeShop

\* C40: the reservation data and the pending reservation of a session created
\* for the home shop, all of it gathered by messages for the home shop, are
\* never saved as a reservation in the table of the other shop by a message
\* that presents the session key with the other shop.
C40_SessionBoundToTenant ==
    \A shop \in Shops \ {HomeShop} : rows[shop] = <<>>

====
